---- MODULE Spec2Model ----
(***************************************************************************)
(* Record manager (record_mgr.c) on top of the buffer pool (buffer_mgr.c). *)
(* Pages are byte blocks of PAGE_SIZE bytes, the page file is a sequence   *)
(* of pages, the pool is an array of page frames.  The C functions are     *)
(* operators over a "world" record w = [frames, readIO, writeIO, disk]     *)
(* and a table record t = [w, numTuples, nextFreePage]; the actions apply  *)
(* them to the variables.                                                  *)
(***************************************************************************)
EXTENDS Integers, Sequences, FiniteSets, Bags, TLC

VARIABLES frames,        \* BM_MgmtData.frames: 0..numPages-1 -> PageFrame
          readIO,        \* BM_MgmtData.readIO
          writeIO,       \* BM_MgmtData.writeIO
          disk,          \* the page file: <<page 0, page 1, ...>>, each PAGE_SIZE bytes
          numTuples,     \* RM_TableMgmtData.numTuples
          nextFreePage,  \* RM_TableMgmtData.nextFreePage
          scan,          \* RM_ScanMgmtData of the one open scan
          handles,       \* page handles a direct client of the pool holds
          ret            \* the last call: its name and return code

vars == <<frames, readIO, writeIO, disk, numTuples, nextFreePage, scan, handles, ret>>

(***************************************************************************)
(* Sizes.  PAGE_SIZE is scaled down from 4096 so that a data page holds    *)
(* two records of the one-INT schema and page 0 still holds the catalog    *)
(* text.                                                                   *)
(***************************************************************************)
PAGE_SIZE == 16
\* frames of a table's pool (createTable / openTable)
NumFrames == 3
\* the page file never grows beyond MaxPages pages (page 0 included)
MaxPages == NumFrames + 1
\* table state machine: a frame's usage counter is kept up to MaxUsage, the read and
\* write counters up to MaxIO (enough page loads to fill the pool and replace twice)
MaxUsage == 3
MaxIO == NumFrames + 2
\* pool state machine: a pool of PoolFrames frames over pages 0..PoolFrames, so that
\* the client can ask for one page more than there are frames; a frame's usage counter
\* and fix count are kept up to these, the read counter up to PoolMaxReads (enough
\* page loads to fill the pool and replace once) and the write counter up to
\* PoolMaxWrites (a write for each replacement)
PoolFrames == NumFrames - 1
PoolMaxUsage == 2
PoolMaxFix == 1
PoolMaxReads == PoolFrames + 1
PoolMaxWrites == PoolMaxReads - PoolFrames

SizeofInt == 4

Min(S) == CHOOSE x \in S : \A y \in S : x <= y

(***************************************************************************)
(* Bytes and pages.  Offsets are zero-based as in C; a page is a tuple of  *)
(* PAGE_SIZE bytes, byte at offset o is data[o + 1].                       *)
(***************************************************************************)
ByteAt(data, off) == data[off + 1]

\* memcpy(data + off, bytes, Len(bytes))
MemCpy(data, off, bytes) ==
    [i \in 1..Len(data) |->
        IF i > off /\ i <= off + Len(bytes) THEN bytes[i - off] ELSE data[i]]

\* memcpy(out, data + off, n)
MemRead(data, off, n) == [i \in 1..n |-> data[off + i]]

\* memset(data, 0, PAGE_SIZE) / calloc(PAGE_SIZE, 1)
ZeroPage == [i \in 1..PAGE_SIZE |-> 0]

\* the four little-endian bytes of a 32-bit two's-complement int
\* (\div rounds down and % is non-negative, so this holds for negative v too)
IntBytes(v) ==
    <<v % 256, (v \div 256) % 256, (v \div 65536) % 256, (v \div 16777216) % 256>>

\* the 32-bit int stored at data + off
IntAt(data, off) ==
    LET top == ByteAt(data, off + 3)
    IN  ByteAt(data, off) + 256 * ByteAt(data, off + 1) + 65536 * ByteAt(data, off + 2)
        + 16777216 * (IF top >= 128 THEN top - 256 ELSE top)

(***************************************************************************)
(* Page file provider (storage manager).                                   *)
(***************************************************************************)
\* SM_FileHandle.totalNumPages after openPageFile
totalNumPages(d) == Len(d)

\* ensureCapacity(numberOfPages, fh): zero pages are appended up to numberOfPages
ensureCapacity(numberOfPages, d) ==
    IF Len(d) >= numberOfPages THEN d
    ELSE d \o [i \in 1..(numberOfPages - Len(d)) |-> ZeroPage]

\* createPageFile: a file of one zero page
createPageFile == <<ZeroPage>>

\* fseek(pageNum * PAGE_SIZE); fwrite(data, 1, PAGE_SIZE)
WriteBlock(d, pageNum, data) ==
    [ensureCapacity(pageNum + 1, d) EXCEPT ![pageNum + 1] = data]

\* fseek(pageNum * PAGE_SIZE); fread(buf, 1, PAGE_SIZE), a short read zero-padded
ReadBlock(d, pageNum) ==
    IF pageNum + 1 <= Len(d) THEN d[pageNum + 1] ELSE ZeroPage

(***************************************************************************)
(* Buffer pool (buffer_mgr.c).                                             *)
(***************************************************************************)
RC_OK == "RC_OK"
RC_ERROR == "RC_ERROR"
RC_RM_NO_MORE_TUPLES == "RC_RM_NO_MORE_TUPLES"
RC_READ_NON_EXISTING_PAGE == "RC_READ_NON_EXISTING_PAGE"

\* data = NULL
NULL == <<>>

initPageFrameArray(numPages) ==
    [i \in 0..(numPages - 1) |->
        [data |-> NULL, pageNum |-> -1, dirty |-> FALSE, fixCount |-> 0, usage |-> 0]]

\* the world after initBufferPool on file d
initBufferPool(d, numPages) ==
    [frames |-> initPageFrameArray(numPages), readIO |-> 0, writeIO |-> 0, disk |-> d]

numPagesOf(w) == Cardinality(DOMAIN w.frames)

\* a lookup that never finds the page (variant of findPageFrame, for NoDuplicatePages)
findPageFrameNever(w, pageNum) == -1

findPageFrame(w, pageNum) ==
    LET S == {i \in DOMAIN w.frames : w.frames[i].pageNum = pageNum}
    IN  IF S = {} THEN -1 ELSE Min(S)

\* the highest free frame (variant of findFreeFrame, for FreeFrameFirst)
findFreeFrameLast(w) ==
    LET S == {i \in DOMAIN w.frames : w.frames[i].pageNum = -1}
    IN  IF S = {} THEN -1 ELSE -Min({-i : i \in S})

findFreeFrame(w) ==
    LET S == {i \in DOMAIN w.frames : w.frames[i].pageNum = -1}
    IN  IF S = {} THEN -1 ELSE Min(S)

\* the last frame, in index order, of least usage (variant of findVictimFrame, for
\* WriteBackAccounting)
findVictimFrameLast(w) ==
    LET E == {i \in DOMAIN w.frames : w.frames[i].fixCount = 0}
        B == {i \in E : \A j \in E : w.frames[i].usage <= w.frames[j].usage}
    IN  IF E = {} THEN 0 ELSE CHOOSE i \in B : \A j \in B : j <= i

\* the first frame of least usage whatever its fixCount (variant of findVictimFrame,
\* for VictimLeastUsedUnpinned)
findVictimFramePinnedToo(w) ==
    LET B == {i \in DOMAIN w.frames :
                 \A j \in DOMAIN w.frames : w.frames[i].usage <= w.frames[j].usage}
    IN  Min(B)

\* a last resort that takes the last frame (variant of findVictimFrame, for
\* AllPinnedReusesFrameZero)
findVictimFrameLastResort(w) ==
    LET E == {i \in DOMAIN w.frames : w.frames[i].fixCount = 0}
        B == {i \in E : \A j \in E : w.frames[i].usage <= w.frames[j].usage}
    IN  IF E = {} THEN -Min({-i : i \in DOMAIN w.frames}) ELSE Min(B)

\* the first frame, in index order, of least usage among those with fixCount = 0;
\* frame 0 when every frame is pinned
findVictimFrame(w) ==
    LET E == {i \in DOMAIN w.frames : w.frames[i].fixCount = 0}
        B == {i \in E : \A j \in E : w.frames[i].usage <= w.frames[j].usage}
    IN  IF E = {} THEN 0 ELSE Min(B)

writeDirtyPageToDisk(w, i) ==
    [w EXCEPT !.disk = WriteBlock(w.disk, w.frames[i].pageNum, w.frames[i].data),
              !.writeIO = @ + 1]

\* the frame pinPage loads a non-resident page into
pinTarget(w) ==
    IF findFreeFrame(w) >= 0 THEN findFreeFrame(w) ELSE findVictimFrame(w)

\* a replacement that drops the victim without writing it (variant of pinWriteBack,
\* for DirtyWrittenBeforeReplaced)
pinWriteBackSkipped(w, i) == [w EXCEPT !.frames[i].dirty = FALSE]

\* the victim's write-back in pinPage
pinWriteBack(w, i) ==
    IF w.frames[i].dirty
    THEN [writeDirtyPageToDisk(w, i) EXCEPT !.frames[i].dirty = FALSE]
    ELSE w

\* a hit that counts a read (variant of pinHit, for ReadsCountLoads)
pinHitCountsRead(w, idx) ==
    [w EXCEPT !.frames[idx].fixCount = @ + 1, !.frames[idx].usage = @ + 1,
              !.readIO = @ + 1]

\* pinPage on a page found in frame idx
pinHit(w, idx) ==
    [w EXCEPT !.frames[idx].fixCount = @ + 1, !.frames[idx].usage = @ + 1]

\* pinPage: [w, rc, idx], idx the frame the handle's data points into
pinPage(w, pageNum) ==
    IF w.frames = NULL \/ pageNum < 0 THEN [w |-> w, rc |-> RC_ERROR, idx |-> -1]
    ELSE LET idx == findPageFrame(w, pageNum) IN
         IF idx >= 0
         THEN [w   |-> pinHit(w, idx),
               rc  |-> RC_OK,
               idx |-> idx]
         ELSE LET freeIndex == pinTarget(w)
                  w1 == pinWriteBack(w, freeIndex)
                  d2 == ensureCapacity(pageNum + 1, w1.disk)
              IN  [w   |-> [w1 EXCEPT
                              !.disk = d2,
                              !.readIO = @ + 1,
                              !.frames[freeIndex] =
                                  [data |-> ReadBlock(d2, pageNum), pageNum |-> pageNum,
                                   dirty |-> FALSE, fixCount |-> 1, usage |-> 1]],
                   rc  |-> RC_OK,
                   idx |-> freeIndex]

\* an unpin that decrements whatever the count (variant of unpinPage, for
\* UnpinSaturates)
unpinPageBelowZero(w, pageNum) ==
    IF findPageFrame(w, pageNum) < 0 THEN [w |-> w, rc |-> RC_ERROR]
    ELSE [w  |-> [w EXCEPT !.frames[findPageFrame(w, pageNum)].fixCount = @ - 1],
          rc |-> RC_OK]

\* unpinPage: [w, rc]
\* an unpin that leaves the pin in place (variant of unpinPage, for NoPinsOutstanding)
unpinPageKeepsPin(w, pageNum) == [w |-> w, rc |-> RC_OK]

unpinPage(w, pageNum) ==
    LET index == findPageFrame(w, pageNum) IN
    IF index < 0 THEN [w |-> w, rc |-> RC_ERROR]
    ELSE [w  |-> IF w.frames[index].fixCount > 0
                 THEN [w EXCEPT !.frames[index].fixCount = @ - 1]
                 ELSE w,
          rc |-> RC_OK]

\* markDirty: [w, rc]
markDirty(w, pageNum) ==
    LET index == findPageFrame(w, pageNum) IN
    IF index < 0 THEN [w |-> w, rc |-> RC_ERROR]
    ELSE [w |-> [w EXCEPT !.frames[index].dirty = TRUE], rc |-> RC_OK]

\* a force that writes the frame whether dirty or not (variant of forcePage, for
\* ForceWritesOnlyDirty)
forcePageAlways(w, pageNum) ==
    IF findPageFrame(w, pageNum) < 0 THEN [w |-> w, rc |-> RC_ERROR]
    ELSE [w  |-> [writeDirtyPageToDisk(w, findPageFrame(w, pageNum))
                     EXCEPT !.frames[findPageFrame(w, pageNum)].dirty = FALSE],
          rc |-> RC_OK]

\* forcePage: [w, rc]
forcePage(w, pageNum) ==
    LET index == findPageFrame(w, pageNum) IN
    IF index < 0 THEN [w |-> w, rc |-> RC_ERROR]
    ELSE [w  |-> IF w.frames[index].dirty
                 THEN [writeDirtyPageToDisk(w, index) EXCEPT !.frames[index].dirty = FALSE]
                 ELSE w,
          rc |-> RC_OK]

\* a flush that writes pinned dirty frames too (variant of flushFrom, for
\* FlushCleansUnpinned)
RECURSIVE flushFromPinnedToo(_, _)
flushFromPinnedToo(w, i) ==
    IF i >= numPagesOf(w) THEN w
    ELSE IF w.frames[i].dirty
         THEN flushFromPinnedToo(
                  [writeDirtyPageToDisk(w, i) EXCEPT !.frames[i].dirty = FALSE], i + 1)
         ELSE flushFromPinnedToo(w, i + 1)

\* the loop of forceFlushPool from frame i on
RECURSIVE flushFrom(_, _)
flushFrom(w, i) ==
    IF i >= numPagesOf(w) THEN w
    ELSE IF w.frames[i].dirty /\ w.frames[i].fixCount = 0
         THEN flushFrom([writeDirtyPageToDisk(w, i) EXCEPT !.frames[i].dirty = FALSE], i + 1)
         ELSE flushFrom(w, i + 1)

\* a flush that writes nothing (variant of forceFlushPool, for CloseOpenKeepsRecords)
forceFlushPoolNothing(w) ==
    IF w.frames = NULL THEN [w |-> w, rc |-> RC_ERROR]
    ELSE [w |-> w, rc |-> RC_OK]

\* forceFlushPool: [w, rc]
forceFlushPool(w) ==
    IF w.frames = NULL THEN [w |-> w, rc |-> RC_ERROR]
    ELSE [w |-> flushFrom(w, 0), rc |-> RC_OK]

\* a shutdown that frees the pool whatever the pin counts (variant of
\* shutdownBufferPool, for ShutdownKeepsPinnedPool)
shutdownBufferPoolAlways(w) ==
    [w |-> [forceFlushPool(w).w EXCEPT !.frames = NULL], rc |-> RC_OK, freed |-> TRUE]

\* shutdownBufferPool: [w, rc, freed]; the pool is flushed first, and freed (mgmtData
\* set to NULL, modelled as frames = NULL) only when no frame is pinned
shutdownBufferPool(w) ==
    IF w.frames = NULL THEN [w |-> w, rc |-> RC_ERROR, freed |-> FALSE]
    ELSE IF \E i \in DOMAIN forceFlushPool(w).w.frames : forceFlushPool(w).w.frames[i].fixCount > 0
    THEN [w |-> forceFlushPool(w).w, rc |-> RC_ERROR, freed |-> FALSE]
    ELSE [w |-> [forceFlushPool(w).w EXCEPT !.frames = NULL], rc |-> RC_OK, freed |-> TRUE]

(***************************************************************************)
(* The same calls when a write to the file can fail: each call takes the   *)
(* outcome of its fwrite, the number of bytes written (PAGE_SIZE when the  *)
(* write completes), or OpenFailed when openPageFile fails before it.      *)
(***************************************************************************)
RC_FILE_NOT_FOUND == "RC_FILE_NOT_FOUND"

OpenFailed == -1

\* writeDirtyPageToDisk under outcome wrote: [w, rc]; the bytes written reach the
\* file, and writeIO is incremented before the byte count is looked at
writeDirtyPageToDiskIO(w, i, wrote) ==
    IF wrote = OpenFailed THEN [w |-> w, rc |-> RC_FILE_NOT_FOUND]
    ELSE [w  |-> [w EXCEPT
                    !.disk = WriteBlock(w.disk, w.frames[i].pageNum,
                                 MemCpy(ReadBlock(w.disk, w.frames[i].pageNum), 0,
                                        MemRead(w.frames[i].data, 0, wrote))),
                    !.writeIO = @ + 1],
          rc |-> IF wrote = PAGE_SIZE THEN RC_OK ELSE RC_ERROR]

\* the rest of a call after its write-back r of frame i: the error is returned as it
\* is, a completed write clears the dirty bit
afterWrite(r, i) ==
    IF r.rc # RC_OK THEN r ELSE [w |-> [r.w EXCEPT !.frames[i].dirty = FALSE], rc |-> RC_OK]

\* forcePage under outcome wrote: [w, rc]
forcePageIO(w, pageNum, wrote) ==
    IF findPageFrame(w, pageNum) < 0 THEN [w |-> w, rc |-> RC_ERROR]
    ELSE IF w.frames[findPageFrame(w, pageNum)].dirty
         THEN afterWrite(writeDirtyPageToDiskIO(w, findPageFrame(w, pageNum), wrote),
                         findPageFrame(w, pageNum))
         ELSE [w |-> w, rc |-> RC_OK]

\* a pin that goes on after a failed write-back (variant of pinAfterWrite, for
\* FailedWriteBackKeepsVictim)
pinAfterWriteAnyway(r, pageNum) == pinPage(r.w, pageNum)

\* pinPage after the write-back r of its dirty victim: the pin is abandoned when the
\* write failed, and goes on with the frame clean otherwise
pinAfterWrite(r, pageNum) ==
    IF r.rc # RC_OK THEN [w |-> r.w, rc |-> r.rc, idx |-> -1] ELSE pinPage(r.w, pageNum)

\* pinPage under outcome wrote of the victim's write-back: [w, rc, idx]
pinPageIO(w, pageNum, wrote) ==
    IF w.frames = NULL \/ pageNum < 0 \/ findPageFrame(w, pageNum) >= 0
    THEN pinPage(w, pageNum)
    ELSE IF w.frames[pinTarget(w)].dirty
         THEN pinAfterWrite(
                  afterWrite(writeDirtyPageToDiskIO(w, pinTarget(w), wrote), pinTarget(w)),
                  pageNum)
         ELSE pinPage(w, pageNum)

\* the fwrite results a call under outcome wrote has seen: one when it tried a
\* write-back with the file open, none otherwise
WroteBy(tried, wrote) == IF tried /\ wrote # OpenFailed THEN <<wrote>> ELSE <<>>

\* a store through a page handle's data pointer, which points into frame idx
StoreThrough(w, idx, data) == [w EXCEPT !.frames[idx].data = data]

(***************************************************************************)
(* Schema and catalog page (page 0).                                       *)
(***************************************************************************)
DT_INT == "DT_INT"
DT_STRING == "DT_STRING"
DT_FLOAT == "DT_FLOAT"
DT_BOOL == "DT_BOOL"

\* the enum value printed with %d into the catalog, and back
DataTypeCode(dt) ==
    CASE dt = DT_INT -> 0 [] dt = DT_STRING -> 1 [] dt = DT_FLOAT -> 2 [] OTHER -> 3
DataTypeOfCode(c) ==
    CASE c = 0 -> DT_INT [] c = 1 -> DT_STRING [] c = 2 -> DT_FLOAT [] OTHER -> DT_BOOL

\* the schema of simpleTableTest: one attribute "a" of type INT ("a" is byte 97)
TableSchema == <<[dataType |-> DT_INT, typeLength |-> 0, attrName |-> <<97>>]>>

RECURSIVE computeRecordSizeFrom(_, _)
computeRecordSizeFrom(schema, i) ==
    IF i > Len(schema) THEN 0
    ELSE (CASE schema[i].dataType = DT_INT -> SizeofInt
            [] schema[i].dataType = DT_FLOAT -> 4
            [] schema[i].dataType = DT_BOOL -> 1
            [] OTHER -> schema[i].typeLength)
         + computeRecordSizeFrom(schema, i + 1)

computeRecordSize(schema) == computeRecordSizeFrom(schema, 1)

\* sprintf("%d", v): the characters of v in decimal
RECURSIVE DecDigits(_)
DecDigits(n) ==
    IF n < 10 THEN <<48 + n>> ELSE Append(DecDigits(n \div 10), 48 + (n % 10))

\* a %d that drops the sign (variant of FormatInt, for CatalogRoundTrip)
FormatIntUnsigned(v) == IF v < 0 THEN DecDigits(-v) ELSE DecDigits(v)

FormatInt(v) == IF v < 0 THEN <<45>> \o DecDigits(-v) ELSE DecDigits(v)

\* the text of the attribute lines from attribute i on
RECURSIVE AttrLines(_, _)
AttrLines(schema, i) ==
    IF i > Len(schema) THEN <<>>
    ELSE FormatInt(DataTypeCode(schema[i].dataType)) \o <<32>>
         \o FormatInt(schema[i].typeLength) \o <<32>>
         \o schema[i].attrName \o <<10>>
         \o AttrLines(schema, i + 1)

\* the text writeTableInfo builds, line by line, with strcpy's final NUL
CatalogText(nt, nfp, schema) ==
    FormatInt(nt) \o <<32>> \o FormatInt(nfp) \o <<10>>
    \o FormatInt(Len(schema)) \o <<10>>
    \o AttrLines(schema, 1) \o <<0>>

\* writeTableInfo: pin page 0, clear it, write the text, markDirty, unpin, forcePage
writeTableInfo(t, schema) ==
    LET p  == pinPage(t.w, 0)
        w1 == StoreThrough(p.w, p.idx,
                  MemCpy(ZeroPage, 0, CatalogText(t.numTuples, t.nextFreePage, schema)))
        w2 == markDirty(w1, 0).w
        w3 == unpinPage(w2, 0).w
        w4 == forcePage(w3, 0).w
    IN  [t EXCEPT !.w = w4]

IsSpace(c) == c \in {32, 10, 9, 13}
IsDigit(c) == c >= 48 /\ c <= 57

\* sscanf's skipping of white space from offset pos
RECURSIVE SkipSpace(_, _)
SkipSpace(data, pos) ==
    IF pos < Len(data) /\ IsSpace(ByteAt(data, pos)) THEN SkipSpace(data, pos + 1) ELSE pos

RECURSIVE ScanDigits(_, _, _)
ScanDigits(data, pos, acc) ==
    IF pos < Len(data) /\ IsDigit(ByteAt(data, pos))
    THEN ScanDigits(data, pos + 1, 10 * acc + (ByteAt(data, pos) - 48))
    ELSE [val |-> acc, pos |-> pos]

\* sscanf's %d from offset pos: [val, pos]
ScanInt(data, pos) ==
    LET p0 == SkipSpace(data, pos)
        neg == p0 < Len(data) /\ ByteAt(data, p0) = 45
        r == ScanDigits(data, IF neg THEN p0 + 1 ELSE p0, 0)
    IN  [val |-> IF neg THEN -r.val ELSE r.val, pos |-> r.pos]

\* sscanf's %s from offset pos: the characters up to white space or NUL: [val, pos]
RECURSIVE ScanChars(_, _, _)
ScanChars(data, pos, acc) ==
    IF pos < Len(data) /\ ~IsSpace(ByteAt(data, pos)) /\ ByteAt(data, pos) # 0
    THEN ScanChars(data, pos + 1, Append(acc, ByteAt(data, pos)))
    ELSE [val |-> acc, pos |-> pos]

ScanStr(data, pos) == ScanChars(data, SkipSpace(data, pos), <<>>)

\* the attribute built from the three fields of "%d %d %s\n%n", and the offset after it
readAttr(data, dt, tLen) ==
    [attr |-> [dataType |-> DataTypeOfCode(dt.val), typeLength |-> tLen.val,
               attrName |-> ScanStr(data, tLen.pos).val],
     pos  |-> SkipSpace(data, ScanStr(data, tLen.pos).pos)]

\* readTableInfo's loop over the attribute lines: n attributes from offset pos
RECURSIVE readAttrs(_, _, _)
readAttrsAfter(data, r, n) == <<r.attr>> \o readAttrs(data, r.pos, n - 1)

readAttrs(data, pos, n) ==
    IF n <= 0 THEN <<>>
    ELSE readAttrsAfter(data,
             readAttr(data, ScanInt(data, pos), ScanInt(data, ScanInt(data, pos).pos)), n)

\* the schema of the catalog text from the second line on, at offset pos
readSchema(data, numAttr) == readAttrs(data, SkipSpace(data, numAttr.pos), numAttr.val)

\* readTableInfo: first line "numTuples nextFreePage", second line the number of
\* attributes, then one line per attribute
readTableInfo(w) ==
    LET p  == pinPage(w, 0)
        data == p.w.frames[p.idx].data
        a  == ScanInt(data, 0)
        b  == ScanInt(data, a.pos)
    IN  [w |-> unpinPage(p.w, 0).w, numTuples |-> a.val, nextFreePage |-> b.val,
         schema |-> readSchema(data, ScanInt(data, SkipSpace(data, b.pos)))]

\* createTable: the page file it leaves behind
createTable(schema) ==
    LET w0 == initBufferPool(createPageFile, NumFrames)
        t  == writeTableInfo([w |-> w0, numTuples |-> 0, nextFreePage |-> -1], schema)
    IN  forceFlushPool(t.w).w.disk

\* openTable on page file d: the table's management data
openTable(d) == readTableInfo(initBufferPool(d, NumFrames))

\* closeTable: [rc, disk], the page file the closed table leaves
closeTable(t, schema) ==
    LET s == shutdownBufferPool(writeTableInfo(t, schema).w)
    IN  [rc |-> s.rc, disk |-> s.w.disk]

(***************************************************************************)
(* Slotted data pages and record operations (record_mgr.c).                *)
(***************************************************************************)
recordSize == computeRecordSize(TableSchema)

computeMaxSlots(recSize) == (PAGE_SIZE - 4) \div (recSize + 1)

getSlotFlag(data, slotNum) == ByteAt(data, 4 + slotNum)

setSlotFlag(data, slotNum, val) == MemCpy(data, 4 + slotNum, <<val % 256>>)

\* every slot at the offset of slot 0 (variant of slotOffset, for RIDStable)
slotOffsetFirst(slotNum) == 4 + computeMaxSlots(recordSize)

\* offset of slot slotNum's payload
slotOffset(slotNum) == 4 + computeMaxSlots(recordSize) + slotNum * recordSize

\* insertRecord's first step: the new data page appended when nextFreePage < 1
appendDataPage(t) ==
    LET pageNum == totalNumPages(t.w.disk)
        d1 == ensureCapacity(pageNum + 1, t.w.disk)
        p  == pinPage([t.w EXCEPT !.disk = d1], pageNum)
        w2 == StoreThrough(p.w, p.idx, MemCpy(ZeroPage, 0, IntBytes(0)))
        w3 == markDirty(w2, pageNum).w
        w4 == unpinPage(w3, pageNum).w
    IN  [t EXCEPT !.w = w4, !.nextFreePage = pageNum]

\* a free slot search that takes the highest free slot (variant of findFreeSlot,
\* for InsertSequence)
findFreeSlotLast(data) ==
    LET F == {i \in 0..(computeMaxSlots(recordSize) - 1) : getSlotFlag(data, i) = 0}
    IN  IF F = {} THEN -1 ELSE -Min({-i : i \in F})

\* the lowest free slot of a page, -1 when none
findFreeSlot(data) ==
    LET F == {i \in 0..(computeMaxSlots(recordSize) - 1) : getSlotFlag(data, i) = 0}
    IN  IF F = {} THEN -1 ELSE Min(F)

\* a placement that keeps the page as nextFreePage even when it filled it (variant
\* of nextFreeAfterInsert, for NextFreePageValid)
nextFreeAfterInsertKeep(slotsUsed, pageNum) == pageNum

\* nextFreePage after a successful placement on page pageNum
nextFreeAfterInsert(slotsUsed, pageNum) ==
    IF slotsUsed = computeMaxSlots(recordSize) THEN -1 ELSE pageNum

\* insertRecord: [t, rc, id, passes]; passes counts the calls of the recursion
RECURSIVE insertRecordPass(_, _, _)

\* the placement of the record into slot freeSlot of the page pinned by p
insertIntoSlot(tA, p, pageNum, freeSlot, recData, passes) ==
    LET data == p.w.frames[p.idx].data
        slotsUsed == IntAt(data, 0)
        d1 == MemCpy(data, slotOffset(freeSlot), recData)
        d2 == setSlotFlag(d1, freeSlot, 1)
        d3 == MemCpy(d2, 0, IntBytes(slotsUsed + 1))
        w1 == StoreThrough(p.w, p.idx, d3)
        w2 == markDirty(w1, tA.nextFreePage).w
        w3 == unpinPage(w2, tA.nextFreePage).w
    IN  [t  |-> [w |-> w3,
                 numTuples |-> tA.numTuples + 1,
                 nextFreePage |-> nextFreeAfterInsert(slotsUsed + 1, pageNum)],
         rc |-> RC_OK,
         id |-> <<tA.nextFreePage, freeSlot>>,
         passes |-> passes]

\* insertRecord once nextFreePage is pinned by p: a page without a free slot is given
\* up and insertRecord calls itself
insertPinned(tA, p, pageNum, recData, passes) ==
    IF findFreeSlot(p.w.frames[p.idx].data) < 0
    THEN insertRecordPass(
             [tA EXCEPT !.w = unpinPage(markDirty(p.w, tA.nextFreePage).w,
                                        tA.nextFreePage).w,
                        !.nextFreePage = -1],
             recData, passes + 1)
    ELSE insertIntoSlot(tA, p, pageNum, findFreeSlot(p.w.frames[p.idx].data),
                        recData, passes)

\* insertRecord from the pin of nextFreePage on; pageNum is the local variable
insertOnPage(tA, pageNum, recData, passes) ==
    insertPinned(tA, pinPage(tA.w, tA.nextFreePage), pageNum, recData, passes)

insertRecordPass(t, recData, passes) ==
    IF t.nextFreePage < 1
    THEN insertOnPage(appendDataPage(t), totalNumPages(t.w.disk), recData, passes)
    ELSE insertOnPage(t, t.nextFreePage, recData, passes)

insertRecord(t, recData) == insertRecordPass(t, recData, 1)

\* a delete that keeps numTuples (variant of deleteUsedSlot, for TupleCount)
deleteUsedSlotKeepCount(t, data, id) ==
    LET slotsUsed == IntAt(data, 0) - 1
    IN  [data |-> MemCpy(setSlotFlag(data, id[2], 0), 0, IntBytes(slotsUsed)),
         numTuples |-> t.numTuples,
         nextFreePage |-> IF slotsUsed = computeMaxSlots(recordSize) - 1
                          THEN id[1] ELSE t.nextFreePage]

\* a delete that keeps the page's slotsUsed header (variant of deleteUsedSlot, for
\* PageHeaderCount)
deleteUsedSlotKeepHeader(t, data, id) ==
    LET slotsUsed == IntAt(data, 0) - 1
    IN  [data |-> setSlotFlag(data, id[2], 0),
         numTuples |-> t.numTuples - 1,
         nextFreePage |-> IF slotsUsed = computeMaxSlots(recordSize) - 1
                          THEN id[1] ELSE t.nextFreePage]

\* a test that takes every slot for used (variant of slotIsUsed, for DeleteIdempotent)
slotIsUsedAlways(data, slotNum) == TRUE

\* deleteRecord's test of the usage byte: the slot counts as used
slotIsUsed(data, slotNum) == getSlotFlag(data, slotNum) = 1

\* a delete that never touches nextFreePage (variant of deleteUsedSlot, for
\* DeleteFreesFullPage)
deleteUsedSlotKeepNextFree(t, data, id) ==
    LET slotsUsed == IntAt(data, 0) - 1
    IN  [data |-> MemCpy(setSlotFlag(data, id[2], 0), 0, IntBytes(slotsUsed)),
         numTuples |-> t.numTuples - 1,
         nextFreePage |-> t.nextFreePage]

\* a delete that leaves the usage byte set (variant of deleteUsedSlot, for
\* FreedSlotReused)
deleteUsedSlotKeepFlag(t, data, id) ==
    LET slotsUsed == IntAt(data, 0) - 1
    IN  [data |-> MemCpy(data, 0, IntBytes(slotsUsed)),
         numTuples |-> t.numTuples - 1,
         nextFreePage |-> IF slotsUsed = computeMaxSlots(recordSize) - 1
                          THEN id[1] ELSE t.nextFreePage]

\* what deleteRecord does to a used slot: the page bytes and the table counters
deleteUsedSlot(t, data, id) ==
    LET slotsUsed == IntAt(data, 0) - 1
    IN  [data |-> MemCpy(setSlotFlag(data, id[2], 0), 0, IntBytes(slotsUsed)),
         numTuples |-> t.numTuples - 1,
         nextFreePage |-> IF slotsUsed = computeMaxSlots(recordSize) - 1
                          THEN id[1] ELSE t.nextFreePage]

\* deleteRecord: [t, rc]
deleteRecord(t, id) ==
    LET p == pinPage(t.w, id[1]) IN
    IF p.rc # RC_OK THEN [t |-> t, rc |-> p.rc]
    ELSE LET data == p.w.frames[p.idx].data
             used == slotIsUsed(data, id[2])
             del  == deleteUsedSlot(t, data, id)
             w1 == IF used THEN StoreThrough(p.w, p.idx, del.data) ELSE p.w
             w2 == markDirty(w1, id[1]).w
             w3 == unpinPage(w2, id[1]).w
         IN  [t  |-> [w |-> w3,
                      numTuples |-> IF used THEN del.numTuples ELSE t.numTuples,
                      nextFreePage |-> IF used THEN del.nextFreePage ELSE t.nextFreePage],
              rc |-> RC_OK]

\* an update that takes every slot for used (variant of updateFreeSlotRC, for
\* UpdateFreeSlotRejected)
updateFreeSlotRCNone(flag) == RC_OK

\* updateRecord's return code for a slot with usage byte flag
updateFreeSlotRC(flag) == IF flag = 0 THEN RC_READ_NON_EXISTING_PAGE ELSE RC_OK

\* an update that stores nothing (variant of updateUsedSlot, for UpdateInPlace)
updateUsedSlotNoStore(p, id, recData) == unpinPage(markDirty(p.w, id[1]).w, id[1]).w

\* what updateRecord does to the world once the slot is known to be in use
updateUsedSlot(p, id, recData) ==
    LET w1 == StoreThrough(p.w, p.idx,
                  MemCpy(p.w.frames[p.idx].data, slotOffset(id[2]), recData))
        w2 == markDirty(w1, id[1]).w
    IN  unpinPage(w2, id[1]).w

\* updateRecord: [t, rc]
updateRecord(t, id, recData) ==
    LET p == pinPage(t.w, id[1]) IN
    IF p.rc # RC_OK THEN [t |-> t, rc |-> p.rc]
    ELSE IF updateFreeSlotRC(getSlotFlag(p.w.frames[p.idx].data, id[2])) # RC_OK
         THEN [t  |-> [t EXCEPT !.w = unpinPage(p.w, id[1]).w],
               rc |-> updateFreeSlotRC(getSlotFlag(p.w.frames[p.idx].data, id[2]))]
         ELSE [t  |-> [t EXCEPT !.w = updateUsedSlot(p, id, recData)],
               rc |-> RC_OK]

\* a test that takes no slot for free (variant of getSlotIsFree, for DeletedStaysGone)
getSlotIsFreeNever(data, slotNum) == FALSE

\* getRecord's test of the usage byte: the slot counts as free
getSlotIsFree(data, slotNum) == getSlotFlag(data, slotNum) = 0

\* getRecord: [t, rc, id, data]
getRecord(t, id) ==
    LET p == pinPage(t.w, id[1]) IN
    IF p.rc # RC_OK THEN [t |-> t, rc |-> p.rc, id |-> <<-1, -1>>, data |-> <<>>]
    ELSE LET data == p.w.frames[p.idx].data IN
         IF getSlotIsFree(data, id[2])
         THEN [t  |-> [t EXCEPT !.w = unpinPage(p.w, id[1]).w],
               rc |-> RC_RM_NO_MORE_TUPLES, id |-> <<-1, -1>>, data |-> <<>>]
         ELSE [t  |-> [t EXCEPT !.w = unpinPage(p.w, id[1]).w],
               rc |-> RC_OK,
               id |-> id,
               data |-> MemRead(data, slotOffset(id[2]), recordSize)]

(***************************************************************************)
(* Scans.  A condition is NULL or <<k>>, standing for the expression       *)
(* NOT (a < k) over the INT attribute a, as in testConditionalUpdates.     *)
(***************************************************************************)
NoCond == NULL

\* evalExpr(record, schema, cond): the boolean the expression evaluates to
evalExpr(recData, cond) == ~(IntAt(recData, 0) < cond[1])

\* no scan is open (mgmtData = NULL)
NoScan == [currentPage |-> 0, currentSlot |-> 0, cond |-> NoCond]

\* startScan: the scan's management data
startScan(cond) == [currentPage |-> 1, currentSlot |-> 0, cond |-> cond]

\* an inner loop that does not test the usage byte (variant of matchingSlots, for
\* ScanReturnsUsedSlots)
matchingSlotsAnyFlag(data, sc) ==
    {s \in sc.currentSlot..(computeMaxSlots(recordSize) - 1) :
        sc.cond = NoCond \/ evalExpr(MemRead(data, slotOffset(s), recordSize), sc.cond)}

\* the slots of the pinned page that next's inner loop stops at
matchingSlots(data, sc) ==
    {s \in sc.currentSlot..(computeMaxSlots(recordSize) - 1) :
        /\ getSlotFlag(data, s) = 1
        /\ (sc.cond = NoCond \/ evalExpr(MemRead(data, slotOffset(s), recordSize), sc.cond))}

\* next: [t, sc, rc, id, data]
RECURSIVE next(_, _)
next(t, sc) ==
    IF sc.currentPage < 1
    THEN [t |-> t, sc |-> sc, rc |-> RC_RM_NO_MORE_TUPLES, id |-> <<-1, -1>>, data |-> <<>>]
    ELSE LET p == pinPage(t.w, sc.currentPage)
             data == p.w.frames[p.idx].data
             M == matchingSlots(data, sc)
             t1 == [t EXCEPT !.w = unpinPage(p.w, sc.currentPage).w]
             sc1 == [sc EXCEPT !.currentPage = @ + 1, !.currentSlot = 0]
         IN  IF M # {}
             THEN [t |-> t1, sc |-> [sc EXCEPT !.currentSlot = Min(M) + 1], rc |-> RC_OK,
                   id |-> <<sc.currentPage, Min(M)>>,
                   data |-> MemRead(data, slotOffset(Min(M)), recordSize)]
             ELSE IF sc1.currentPage >= totalNumPages(t1.w.disk)
                  THEN [t |-> t1, sc |-> sc1, rc |-> RC_RM_NO_MORE_TUPLES,
                        id |-> <<-1, -1>>, data |-> <<>>]
                  ELSE next(t1, sc1)

(***************************************************************************)
(* State machine of a table: the state after createTable and openTable,    *)
(* then any sequence of record and scan calls.                             *)
(***************************************************************************)
\* record payloads: the client inserts records with a = 42 and updates them to a = 7
InsertPayloads == {IntBytes(42)}
UpdatePayloads == {IntBytes(7)}
Payloads == InsertPayloads \cup UpdatePayloads

\* record identifiers the client passes: slots 0..N-1 of the data pages of the file;
\* getRecord is also called on slot 0 of page 0
Slots == 0..(computeMaxSlots(recordSize) - 1)
RIDs == (1..(Len(disk) - 1)) \X Slots
ReadRIDs == RIDs \cup {<<0, 0>>}

World == [frames |-> frames, readIO |-> readIO, writeIO |-> writeIO, disk |-> disk]
Table == [w |-> World, numTuples |-> numTuples, nextFreePage |-> nextFreePage]

\* the bounds of the table state machine: file length and counters
Bounded(w) ==
    /\ Len(w.disk) <= MaxPages
    /\ \A i \in DOMAIN w.frames : w.frames[i].usage <= MaxUsage
    /\ w.readIO <= MaxIO
    /\ w.writeIO <= MaxIO

SetWorld(w) ==
    /\ frames' = w.frames
    /\ readIO' = w.readIO
    /\ writeIO' = w.writeIO
    /\ disk' = w.disk

SetTable(t) ==
    /\ Bounded(t.w)
    /\ SetWorld(t.w)
    /\ numTuples' = t.numTuples
    /\ nextFreePage' = t.nextFreePage

Init ==
    LET t == openTable(createTable(TableSchema)) IN
    /\ frames = t.w.frames
    /\ readIO = t.w.readIO
    /\ writeIO = t.w.writeIO
    /\ disk = t.w.disk
    /\ numTuples = t.numTuples
    /\ nextFreePage = t.nextFreePage
    /\ scan = NoScan
    /\ handles = EmptyBag
    /\ ret = [op |-> "openTable", rc |-> RC_OK]

InsertRecord(recData) ==
    LET r == insertRecord(Table, recData) IN
    /\ SetTable(r.t)
    /\ ret' = [op |-> "insertRecord", rc |-> r.rc]
    /\ UNCHANGED <<scan, handles>>

DeleteRecord(id) ==
    LET r == deleteRecord(Table, id) IN
    /\ SetTable(r.t)
    /\ ret' = [op |-> "deleteRecord", rc |-> r.rc]
    /\ UNCHANGED <<scan, handles>>

UpdateRecord(id, recData) ==
    LET r == updateRecord(Table, id, recData) IN
    /\ SetTable(r.t)
    /\ ret' = [op |-> "updateRecord", rc |-> r.rc]
    /\ UNCHANGED <<scan, handles>>

GetRecord(id) ==
    LET r == getRecord(Table, id) IN
    /\ SetTable(r.t)
    /\ ret' = [op |-> "getRecord", rc |-> r.rc]
    /\ UNCHANGED <<scan, handles>>

\* closeScan: the scan's management data is freed
closeScan(sc) == NoScan

\* the client loop "startScan; while (next(...) == RC_OK) ...": [t, sc, found],
\* found the tuple of records (id, data) that next returned, in order
RECURSIVE scanLoop(_, _, _)
scanLoop(t, sc, found) ==
    LET r == next(t, sc) IN
    IF r.rc = RC_OK
    THEN scanLoop(r.t, r.sc, Append(found, [id |-> r.id, data |-> r.data]))
    ELSE [t |-> r.t, sc |-> r.sc, found |-> found]

ScanAll ==
    LET r == scanLoop(Table, startScan(NoCond), <<>>) IN
    /\ SetTable(r.t)
    /\ scan' = closeScan(r.sc)
    /\ ret' = [op |-> "scan", rc |-> RC_RM_NO_MORE_TUPLES]
    /\ UNCHANGED handles

Next ==
    \/ \E recData \in InsertPayloads : InsertRecord(recData)
    \/ \E id \in RIDs : DeleteRecord(id)
    \/ \E id \in RIDs, recData \in UpdatePayloads : UpdateRecord(id, recData)
    \/ \E id \in ReadRIDs : GetRecord(id)
    \/ ScanAll

Spec == Init /\ [][Next]_vars

(***************************************************************************)
(* State machine of a pool used directly: a client pins, unpins, marks     *)
(* dirty, forces and flushes pages of a page file, and stores into the     *)
(* pages it holds handles on.                                              *)
(***************************************************************************)
\* a page handle: BM_PageHandle.pageNum, and the frame BM_PageHandle.data points into
Handle(pageNum, idx) == [pageNum |-> pageNum, idx |-> idx]

\* page numbers the client asks for
PoolPages == 0..PoolFrames

\* handles the client may pass: the ones it holds
HeldHandles == BagToSet(handles)

\* the bounds of the pool state machine: counters
BoundedBM(w) ==
    /\ \A i \in DOMAIN w.frames :
          w.frames[i].usage <= PoolMaxUsage /\ w.frames[i].fixCount <= PoolMaxFix
    /\ w.readIO <= PoolMaxReads
    /\ w.writeIO <= PoolMaxWrites

\* the bytes the client stores into a pinned page
StoredPage == [i \in 1..PAGE_SIZE |-> 1]

InitBM ==
    LET w == initBufferPool(createPageFile, PoolFrames) IN
    /\ frames = w.frames
    /\ readIO = w.readIO
    /\ writeIO = w.writeIO
    /\ disk = w.disk
    /\ numTuples = 0
    /\ nextFreePage = -1
    /\ scan = NoScan
    /\ handles = EmptyBag
    /\ ret = [op |-> "initBufferPool", rc |-> RC_OK]

PinPage(pageNum) ==
    LET r == pinPage(World, pageNum) IN
    /\ BoundedBM(r.w)
    /\ SetWorld(r.w)
    /\ handles' = IF r.rc = RC_OK
                  THEN handles (+) SetToBag({Handle(pageNum, r.idx)})
                  ELSE handles
    /\ ret' = [op |-> "pinPage", rc |-> r.rc]
    /\ UNCHANGED <<numTuples, nextFreePage, scan>>

\* the client gives up the handle whatever unpinPage returns
UnpinPage(h) ==
    LET r == unpinPage(World, h.pageNum) IN
    /\ BoundedBM(r.w)
    /\ SetWorld(r.w)
    /\ handles' = handles (-) SetToBag({h})
    /\ ret' = [op |-> "unpinPage", rc |-> r.rc]
    /\ UNCHANGED <<numTuples, nextFreePage, scan>>

MarkDirty(h) ==
    LET r == markDirty(World, h.pageNum) IN
    /\ BoundedBM(r.w)
    /\ SetWorld(r.w)
    /\ ret' = [op |-> "markDirty", rc |-> r.rc]
    /\ UNCHANGED <<numTuples, nextFreePage, scan, handles>>

ForcePage(h) ==
    LET r == forcePage(World, h.pageNum) IN
    /\ BoundedBM(r.w)
    /\ SetWorld(r.w)
    /\ ret' = [op |-> "forcePage", rc |-> r.rc]
    /\ UNCHANGED <<numTuples, nextFreePage, scan, handles>>

ForceFlushPool ==
    LET r == forceFlushPool(World) IN
    /\ BoundedBM(r.w)
    /\ SetWorld(r.w)
    /\ ret' = [op |-> "forceFlushPool", rc |-> r.rc]
    /\ UNCHANGED <<numTuples, nextFreePage, scan, handles>>

\* with the pool freed, the client drops the handles it still has
ShutdownBufferPool ==
    LET r == shutdownBufferPool(World) IN
    /\ BoundedBM(r.w)
    /\ SetWorld(r.w)
    /\ handles' = IF r.freed THEN EmptyBag ELSE handles
    /\ ret' = [op |-> "shutdownBufferPool", rc |-> r.rc]
    /\ UNCHANGED <<numTuples, nextFreePage, scan>>

\* memset(h.data, 1, PAGE_SIZE) through a handle the client holds
StorePage(h) ==
    /\ SetWorld(StoreThrough(World, h.idx, StoredPage))
    /\ ret' = [op |-> "store", rc |-> RC_OK]
    /\ UNCHANGED <<numTuples, nextFreePage, scan, handles>>

NextBM ==
    \/ \E pageNum \in PoolPages : PinPage(pageNum)
    \/ \E h \in HeldHandles : UnpinPage(h)
    \/ \E h \in HeldHandles : MarkDirty(h)
    \/ \E h \in HeldHandles : ForcePage(h)
    \/ ForceFlushPool
    \/ ShutdownBufferPool
    \/ \E h \in HeldHandles : StorePage(h)

SpecBM == InitBM /\ [][NextBM]_vars

(***************************************************************************)
(* State machine of a pool whose writes can fail: as the pool above, with  *)
(* the outcome of the write of each call chosen freely; ret records the    *)
(* fwrite results of the call.                                             *)
(***************************************************************************)
WriteOutcomes == {OpenFailed, 0, PAGE_SIZE}

PinPageIO(pageNum, wrote) ==
    LET r == pinPageIO(World, pageNum, wrote) IN
    /\ BoundedBM(r.w)
    /\ SetWorld(r.w)
    /\ handles' = IF r.rc = RC_OK
                  THEN handles (+) SetToBag({Handle(pageNum, r.idx)})
                  ELSE handles
    /\ ret' = [op |-> "pinPage", rc |-> r.rc,
               wrote |-> WroteBy(/\ pageNum \notin {frames[i].pageNum : i \in DOMAIN frames}
                                 /\ frames[pinTarget(World)].dirty, wrote)]
    /\ UNCHANGED <<numTuples, nextFreePage, scan>>

ForcePageIO(h, wrote) ==
    LET r == forcePageIO(World, h.pageNum, wrote) IN
    /\ BoundedBM(r.w)
    /\ SetWorld(r.w)
    /\ ret' = [op |-> "forcePage", rc |-> r.rc,
               wrote |-> WroteBy(/\ findPageFrame(World, h.pageNum) >= 0
                                 /\ frames[findPageFrame(World, h.pageNum)].dirty, wrote)]
    /\ UNCHANGED <<numTuples, nextFreePage, scan, handles>>

NextIO ==
    \/ \E pageNum \in PoolPages, wrote \in WriteOutcomes : PinPageIO(pageNum, wrote)
    \/ \E h \in HeldHandles : UnpinPage(h)
    \/ \E h \in HeldHandles : MarkDirty(h)
    \/ \E h \in HeldHandles, wrote \in WriteOutcomes : ForcePageIO(h, wrote)

SpecIO == InitBM /\ [][NextIO]_vars

(***************************************************************************)
(* State machine of the pool the record manager opens (NumFrames frames,   *)
(* RS_FIFO) under a client that holds one page at a time: it pins a page,  *)
(* may mark it dirty, and unpins it before the next pin.  ret also keeps   *)
(* the calls made so far, up to MaxCalls of them.                          *)
(***************************************************************************)
MaxCalls == 10

\* page numbers the client asks for: one more than the pool has frames
FIFOPages == 0..NumFrames

Call(op, pageNum, loaded) == [op |-> op, page |-> pageNum, loaded |-> loaded]

InitFIFO ==
    LET w == initBufferPool(createPageFile, NumFrames) IN
    /\ frames = w.frames
    /\ readIO = w.readIO
    /\ writeIO = w.writeIO
    /\ disk = w.disk
    /\ numTuples = 0
    /\ nextFreePage = -1
    /\ scan = NoScan
    /\ handles = EmptyBag
    /\ ret = [op |-> "initBufferPool", rc |-> RC_OK, calls |-> <<>>]

PinPageFIFO(pageNum) ==
    /\ Len(ret.calls) < MaxCalls
    /\ handles = EmptyBag
    /\ SetWorld(pinPage(World, pageNum).w)
    /\ handles' = SetToBag({Handle(pageNum, pinPage(World, pageNum).idx)})
    /\ ret' = [op |-> "pinPage", rc |-> pinPage(World, pageNum).rc,
               calls |-> Append(ret.calls,
                             Call("pinPage", pageNum, findPageFrame(World, pageNum) < 0))]
    /\ UNCHANGED <<numTuples, nextFreePage, scan>>

MarkDirtyFIFO(h) ==
    /\ Len(ret.calls) < MaxCalls
    /\ SetWorld(markDirty(World, h.pageNum).w)
    /\ ret' = [op |-> "markDirty", rc |-> markDirty(World, h.pageNum).rc,
               calls |-> Append(ret.calls, Call("markDirty", h.pageNum, FALSE))]
    /\ UNCHANGED <<numTuples, nextFreePage, scan, handles>>

UnpinPageFIFO(h) ==
    /\ Len(ret.calls) < MaxCalls
    /\ SetWorld(unpinPage(World, h.pageNum).w)
    /\ handles' = EmptyBag
    /\ ret' = [op |-> "unpinPage", rc |-> unpinPage(World, h.pageNum).rc,
               calls |-> Append(ret.calls, Call("unpinPage", h.pageNum, FALSE))]
    /\ UNCHANGED <<numTuples, nextFreePage, scan>>

NextFIFO ==
    \/ \E pageNum \in FIFOPages : PinPageFIFO(pageNum)
    \/ \E h \in HeldHandles : MarkDirtyFIFO(h)
    \/ \E h \in HeldHandles : UnpinPageFIFO(h)

SpecFIFO == InitFIFO /\ [][NextFIFO]_vars

(***************************************************************************)
(* Properties of the pool (checked on SpecBM).                             *)
(***************************************************************************)
\* C3: in every reachable state of a pool, no two frames hold the same resident
\* page number (frames with pageNum = -1 excluded).
NoDuplicatePages ==
    \A i, j \in DOMAIN frames :
        (i # j /\ frames[i].pageNum # -1) => frames[i].pageNum # frames[j].pageNum

\* a full pool in which pinPage has just found its page resident
FullPoolPinHit ==
    /\ ret = [op |-> "pinPage", rc |-> RC_OK]
    /\ \A i \in DOMAIN frames : frames[i].pageNum # -1
    /\ \E i \in DOMAIN frames : frames[i].usage = 2 /\ frames[i].fixCount = 1

\* C4: a pinned frame is never chosen as the replacement victim: while the client
\* holds a handle (pinned, not yet unpinned), the frame the handle's data points
\* into keeps holding the handle's page number.
PinnedFrameKept ==
    \A h \in HeldHandles : frames[h.idx].pageNum = h.pageNum

\* C5: a dirty frame's content is not replaced by another page unless its bytes
\* were first written to disk at the frame's resident page number: a step that
\* changes the page number of a dirty frame leaves the frame's old bytes on disk
\* at the old page number and counts one write.
DirtyWrittenBeforeReplaced ==
    [][\A i \in DOMAIN frames \cap DOMAIN frames' :
          (frames[i].dirty /\ frames'[i].pageNum # frames[i].pageNum)
          => /\ frames[i].pageNum + 1 <= Len(disk')
             /\ disk'[frames[i].pageNum + 1] = frames[i].data
             /\ writeIO' = writeIO + 1]_vars

\* pinPage has replaced a page whose stored bytes are on disk and nowhere in the pool
StoredPageReplaced ==
    /\ ret = [op |-> "pinPage", rc |-> RC_OK]
    /\ readIO = PoolMaxReads
    /\ writeIO = 1
    /\ \E p \in PoolPages :
          /\ p + 1 <= Len(disk)
          /\ disk[p + 1] = StoredPage
          /\ findPageFrame(World, p) < 0
    /\ \A i \in DOMAIN frames : frames[i].data # StoredPage

(***************************************************************************)
(* Properties of a table (checked on Spec).  A data page is read the way   *)
(* pinPage hands it out: from its frame when resident, from the file       *)
(* otherwise.                                                              *)
(***************************************************************************)
\* the data pages of the file of world w
DataPages(w) == 1..(Len(w.disk) - 1)

\* the bytes of page p that a pin of p hands out in world w
PageOf(w, p) ==
    IF findPageFrame(w, p) >= 0 THEN w.frames[findPageFrame(w, p)].data
    ELSE ReadBlock(w.disk, p)

\* the slotsUsed header of a page
slotsUsedOf(data) == IntAt(data, 0)

\* the slots of a page whose usage byte is 1
UsedSlots(data) == {s \in Slots : getSlotFlag(data, s) = 1}

\* the payload bytes of slot s of a page
PayloadOf(data, s) == MemRead(data, slotOffset(s), recordSize)

\* the sum of the slotsUsed headers of data pages 1..p
RECURSIVE HeaderSum(_, _)
HeaderSum(w, p) ==
    IF p < 1 THEN 0 ELSE slotsUsedOf(PageOf(w, p)) + HeaderSum(w, p - 1)

\* the number of usage bytes equal to 1 on data pages 1..p
RECURSIVE FlagSum(_, _)
FlagSum(w, p) ==
    IF p < 1 THEN 0 ELSE Cardinality(UsedSlots(PageOf(w, p))) + FlagSum(w, p - 1)

\* the record identifiers getRecord returns RC_OK for
LiveRIDs(t) == {r \in DataPages(t.w) \X Slots : getRecord(t, r).rc = RC_OK}

\* every call the client can make next on table t, and the table it leaves:
\* inserts, deletes and updates of the record identifiers of the data pages, reads
\* (one of them of page 0) and a scan
ClientCalls(t) ==
    {[op |-> "insertRecord", id |-> insertRecord(t, d).id, t |-> insertRecord(t, d).t] :
        d \in InsertPayloads}
    \cup {[op |-> "deleteRecord", id |-> q, t |-> deleteRecord(t, q).t] :
            q \in DataPages(t.w) \X Slots}
    \cup {[op |-> "updateRecord", id |-> q[1], t |-> updateRecord(t, q[1], q[2]).t] :
            q \in (DataPages(t.w) \X Slots) \X UpdatePayloads}
    \cup {[op |-> "getRecord", id |-> q, t |-> getRecord(t, q).t] :
            q \in (DataPages(t.w) \X Slots) \cup {<<0, 0>>}}
    \cup {[op |-> "scan", id |-> <<-1, -1>>, t |-> scanLoop(t, startScan(NoCond), <<>>).t]}

\* the tables the calls of C leave, for every call that is not a deleteRecord or
\* updateRecord of r
AfterOtherCalls(C, r) ==
    {c.t : c \in {x \in C : ~(x.op \in {"deleteRecord", "updateRecord"} /\ x.id = r)}}

\* C1: RID stability.  In every reachable state, the record insertRecord places is
\* returned by getRecord on the returned RID, byte-equal and with that RID; and a
\* record that getRecord returns for RID r is returned unchanged, with id r, after
\* any call (inserts, deletes and updates of other RIDs, reads, scans, with the page
\* replacements they cause) that is not a deleteRecord or updateRecord of r.
RIDStable ==
    /\ \A d \in InsertPayloads :
          LET i == insertRecord(Table, d)
              g == getRecord(i.t, i.id)
          IN  /\ i.rc = RC_OK
              /\ g.rc = RC_OK
              /\ g.data = d
              /\ g.id = i.id
    /\ LET C == ClientCalls(Table) IN
       \A r \in RIDs :
          getRecord(Table, r).rc = RC_OK
          => \A t2 \in AfterOtherCalls(C, r) :
                LET g == getRecord(t2, r)
                IN  /\ g.rc = RC_OK
                    /\ g.data = getRecord(Table, r).data
                    /\ g.id = r

\* after a getRecord call a record is alive on a data page that has been replaced in
\* the pool, next to records on resident pages
LiveRecordOnReplacedPage ==
    /\ ret = [op |-> "getRecord", rc |-> RC_OK]
    /\ \E r \in RIDs :
          /\ findPageFrame(World, r[1]) < 0
          /\ getRecord(Table, r).rc = RC_OK
          /\ getRecord(Table, r).data \in Payloads
    /\ \E r \in RIDs :
          /\ findPageFrame(World, r[1]) >= 0
          /\ getRecord(Table, r).rc = RC_OK
          /\ getRecord(Table, r).data \in InsertPayloads

\* C2: in every reachable state numTuples equals the sum of the slotsUsed headers
\* over the data pages, and equals the number of usage bytes equal to 1 over the
\* data pages.
TupleCount ==
    /\ numTuples = HeaderSum(World, Len(disk) - 1)
    /\ numTuples = FlagSum(World, Len(disk) - 1)

\* records on two data pages, one of them deleted by the last call
TwoPagesAfterDelete ==
    /\ ret = [op |-> "deleteRecord", rc |-> RC_OK]
    /\ Len(disk) >= 3
    /\ numTuples >= 2
    /\ \E r \in RIDs :
          /\ getSlotFlag(PageOf(World, r[1]), r[2]) = 0
          /\ PayloadOf(PageOf(World, r[1]), r[2]) \in InsertPayloads

\* the tables the calls of C leave, for every call but an insertRecord that returns r
AfterCallsNotInserting(C, r) ==
    {c.t : c \in {x \in C : ~(x.op = "insertRecord" /\ x.id = r)}}

\* C6: after deleteRecord(r) on a used slot r returns RC_OK, getRecord(r) returns
\* RC_RM_NO_MORE_TUPLES (not RC_OK), and it keeps returning it after every call that
\* is not an insertRecord returning the same RID r.
DeletedStaysGone ==
    LET C == ClientCalls(Table) IN
    \A r \in RIDs :
        /\ getSlotFlag(PageOf(World, r[1]), r[2]) = 1
           => LET d == deleteRecord(Table, r)
              IN  /\ d.rc = RC_OK
                  /\ getRecord(d.t, r).rc = RC_RM_NO_MORE_TUPLES
        /\ getRecord(Table, r).rc = RC_RM_NO_MORE_TUPLES
           => \A t2 \in AfterCallsNotInserting(C, r) :
                 getRecord(t2, r).rc = RC_RM_NO_MORE_TUPLES

\* a slot whose usage byte is 0 still holds the payload of the record deleted from it
FreedSlot(r) ==
    /\ getSlotFlag(PageOf(World, r[1]), r[2]) = 0
    /\ PayloadOf(PageOf(World, r[1]), r[2]) \in Payloads

\* getRecord has just returned RC_RM_NO_MORE_TUPLES and a deleted record's slot is free
GetAfterDelete ==
    /\ ret = [op |-> "getRecord", rc |-> RC_RM_NO_MORE_TUPLES]
    /\ \E r \in RIDs : FreedSlot(r)

\* the slotsUsed headers and the usage bytes of the data pages of t1 and t2 agree
SameHeadersAndFlags(t1, t2) ==
    /\ DataPages(t1.w) = DataPages(t2.w)
    /\ \A p \in DataPages(t1.w) :
          /\ slotsUsedOf(PageOf(t1.w, p)) = slotsUsedOf(PageOf(t2.w, p))
          /\ \A s \in Slots :
                getSlotFlag(PageOf(t1.w, p), s) = getSlotFlag(PageOf(t2.w, p), s)

\* C7: deleteRecord is idempotent: on an already-free slot it returns RC_OK and
\* changes neither numTuples, nor a slotsUsed header or usage byte, nor nextFreePage;
\* so the count is kept: in every reachable state numTuples is the number of RIDs
\* getRecord returns RC_OK for, a delete of a live RID takes exactly that RID out of
\* them, a delete of a free slot leaves them as they are, and an insert adds the RID
\* it returns.
DeleteIdempotent ==
    LET live == LiveRIDs(Table) IN
    /\ numTuples = Cardinality(live)
    /\ \A r \in RIDs :
          LET d == deleteRecord(Table, r) IN
          IF getSlotFlag(PageOf(World, r[1]), r[2]) = 1
          THEN /\ d.rc = RC_OK
               /\ r \in live
               /\ LiveRIDs(d.t) = live \ {r}
               /\ d.t.numTuples = numTuples - 1
          ELSE /\ d.rc = RC_OK
               /\ d.t.numTuples = numTuples
               /\ d.t.nextFreePage = nextFreePage
               /\ SameHeadersAndFlags(d.t, Table)
               /\ LiveRIDs(d.t) = live
    /\ \A x \in InsertPayloads :
          LET i == insertRecord(Table, x) IN
          /\ i.id \notin live
          /\ LiveRIDs(i.t) = live \cup {i.id}
          /\ i.t.numTuples = numTuples + 1

\* deleteRecord has just returned RC_OK, no record is left and the deleted records'
\* slots are free
AllDeleted ==
    /\ ret = [op |-> "deleteRecord", rc |-> RC_OK]
    /\ numTuples = 0
    /\ LiveRIDs(Table) = {}
    /\ \E r \in RIDs : FreedSlot(r)

\* C8: updateRecord on a used slot r overwrites the payload in place: it returns
\* RC_OK, afterwards getRecord(r) returns the new payload with the same (page, slot),
\* and numTuples, nextFreePage, every slotsUsed header, every usage byte and the
\* payload of every other slot are unchanged.
UpdateInPlace ==
    \A r \in RIDs, d \in UpdatePayloads :
        getSlotFlag(PageOf(World, r[1]), r[2]) = 1
        => LET u == updateRecord(Table, r, d)
               g == getRecord(u.t, r)
           IN  /\ u.rc = RC_OK
               /\ g.rc = RC_OK
               /\ g.data = d
               /\ g.id = r
               /\ u.t.numTuples = numTuples
               /\ u.t.nextFreePage = nextFreePage
               /\ SameHeadersAndFlags(u.t, Table)
               /\ \A q \in RIDs \ {r} :
                     PayloadOf(PageOf(u.t.w, q[1]), q[2]) = PayloadOf(PageOf(World, q[1]), q[2])

\* updateRecord has just returned RC_OK, an updated record lies next to one that was
\* not updated
UpdatedNextToInserted ==
    /\ ret = [op |-> "updateRecord", rc |-> RC_OK]
    /\ \E r, q \in RIDs :
          /\ getRecord(Table, r).rc = RC_OK
          /\ getRecord(Table, r).data \in UpdatePayloads
          /\ getRecord(Table, q).rc = RC_OK
          /\ getRecord(Table, q).data \in InsertPayloads

\* the dirty flag of page p in world w, FALSE when p is not resident
DirtyOf(w, p) == findPageFrame(w, p) >= 0 /\ w.frames[findPageFrame(w, p)].dirty

\* C9: updateRecord on a RID whose slot is free returns RC_READ_NON_EXISTING_PAGE,
\* an error other than the RC_RM_NO_MORE_TUPLES that getRecord returns for the
\* slot; it writes no byte of a page, does not mark the page dirty, leaves numTuples
\* and nextFreePage unchanged, and leaves the page unpinned.
UpdateFreeSlotRejected ==
    \A r \in RIDs, d \in UpdatePayloads :
        getSlotFlag(PageOf(World, r[1]), r[2]) = 0
        => LET u == updateRecord(Table, r, d)
               f == findPageFrame(u.t.w, r[1])
           IN  /\ u.rc = RC_READ_NON_EXISTING_PAGE
               /\ u.rc # RC_RM_NO_MORE_TUPLES
               /\ getRecord(Table, r).rc = RC_RM_NO_MORE_TUPLES
               /\ \A p \in 0..(Len(disk) - 1) : PageOf(u.t.w, p) = PageOf(World, p)
               /\ DirtyOf(u.t.w, r[1]) = DirtyOf(World, r[1])
               /\ u.t.numTuples = numTuples
               /\ u.t.nextFreePage = nextFreePage
               /\ f >= 0
               /\ u.t.w.frames[f].fixCount = 0

\* updateRecord has just returned RC_READ_NON_EXISTING_PAGE for a slot that is free
\* on a page that holds a record
UpdateRejected ==
    /\ ret = [op |-> "updateRecord", rc |-> RC_READ_NON_EXISTING_PAGE]
    /\ \E r, q \in RIDs :
          /\ r[1] = q[1]
          /\ getSlotFlag(PageOf(World, r[1]), r[2]) = 0
          /\ getSlotFlag(PageOf(World, q[1]), q[2]) = 1

\* C10: in every reachable state every data page satisfies slotsUsed = (number of
\* usage bytes equal to 1 among its N slots) and 0 <= slotsUsed <= N, where
\* N = floor((PAGE_SIZE - 4) / (recordSize + 1)).
PageHeaderCount ==
    \A p \in DataPages(World) :
        LET N == (PAGE_SIZE - 4) \div (recordSize + 1)
            data == PageOf(World, p)
        IN  /\ Slots = 0..(N - 1)
            /\ slotsUsedOf(data) = Cardinality({s \in 0..(N - 1) : getSlotFlag(data, s) = 1})
            /\ 0 <= slotsUsedOf(data)
            /\ slotsUsedOf(data) <= N

\* a full data page, and a data page a record was deleted from
FullPageAndFreedSlot ==
    /\ \E p \in DataPages(World) :
          slotsUsedOf(PageOf(World, p)) = computeMaxSlots(recordSize)
    /\ \E r \in RIDs :
          /\ FreedSlot(r)
          /\ slotsUsedOf(PageOf(World, r[1])) < computeMaxSlots(recordSize)

\* nextFreePage of table t is -1 or an existing data page with a free slot
HasFreePage(t) ==
    \/ t.nextFreePage = -1
    \/ /\ t.nextFreePage >= 1
       /\ t.nextFreePage < totalNumPages(t.w.disk)
       /\ findFreeSlot(PageOf(t.w, t.nextFreePage)) >= 0

\* C11: in every reachable table state nextFreePage is -1 or the number of an
\* existing data page (>= 1, never 0, never beyond the end of the file) that had a
\* free slot when nextFreePage was last assigned: it holds of the state, and of the
\* table that every next insertRecord and deleteRecord, the calls that assign
\* nextFreePage, leaves (only insertRecord fills slots, and it assigns nextFreePage
\* each time, so the page still has its free slot).
NextFreePageValid ==
    /\ nextFreePage # 0
    /\ HasFreePage(Table)
    /\ \A d \in InsertPayloads : HasFreePage(insertRecord(Table, d).t)
    /\ \A q \in DataPages(World) \X Slots : HasFreePage(deleteRecord(Table, q).t)

\* insertRecord has filled page 1 and then placed a record on page 2, which it
\* keeps as nextFreePage
SecondPageKeptFree ==
    /\ ret = [op |-> "insertRecord", rc |-> RC_OK]
    /\ nextFreePage = 2
    /\ findFreeSlot(PageOf(World, 1)) < 0
    /\ slotsUsedOf(PageOf(World, 2)) = 1

\* one-attribute schemas whose catalog text fits the page
Schemas ==
    {<<[dataType |-> DT_INT, typeLength |-> 0, attrName |-> <<105, 100>>]>>,
     <<[dataType |-> DT_STRING, typeLength |-> 4, attrName |-> <<97>>]>>,
     <<[dataType |-> DT_FLOAT, typeLength |-> 0, attrName |-> <<98>>]>>,
     <<[dataType |-> DT_BOOL, typeLength |-> 0, attrName |-> <<105, 100>>]>>}

\* the catalog values o that openTable returns for the file left by a closeTable
\* that returned rc are those of table t and schema sch
RoundTrip(t, sch, rc, o) ==
    /\ rc = RC_OK
    /\ o.numTuples = t.numTuples
    /\ o.nextFreePage = t.nextFreePage
    /\ Len(o.schema) = Len(sch)
    /\ \A i \in 1..Len(sch) :
          /\ o.schema[i].attrName = sch[i].attrName
          /\ o.schema[i].dataType = sch[i].dataType
          /\ o.schema[i].typeLength = sch[i].typeLength

\* C12: catalog round trip.  In every reachable table state (after any sequence of
\* record operations) closeTable followed by openTable on the same file yields the
\* numTuples and nextFreePage of before the close and a schema with the same number
\* of attributes and the same attribute names, data types and type lengths; for the
\* table's schema, and for the catalog of the same table under each schema of Schemas.
CatalogRoundTrip ==
    \A sch \in Schemas \cup {TableSchema} :
        LET c == closeTable(Table, sch)
        IN  RoundTrip(Table, sch, c.rc, openTable(c.disk))

\* a table with records on two pages, a dirty data page not yet on disk, and a
\* nextFreePage other than the -1 that createTable wrote
CloseWithUnwrittenPage ==
    /\ numTuples >= 3
    /\ nextFreePage >= 1
    /\ \E i \in DOMAIN frames : frames[i].dirty /\ frames[i].pageNum >= 1
    /\ closeTable(Table, TableSchema).disk # disk

(***************************************************************************)
(* Properties of the pool's calls (checked on SpecBM): each is stated of   *)
(* the call applied to every reachable state of the pool.                  *)
(***************************************************************************)
\* the bytes of page pageNum in the file of world w
OnDisk(w, pageNum) == ReadBlock(w.disk, pageNum)

\* frame i of world w holds a page whose buffer differs from the file only if the
\* frame is marked dirty
DirtyBitTruthful(w, i) ==
    w.frames[i].dirty \/ w.frames[i].data = OnDisk(w, w.frames[i].pageNum)

\* C13: when forceFlushPool returns RC_OK, every frame with fixCount 0 is clean and
\* (for a resident page whose dirty bit was truthful) its bytes on disk equal its
\* buffer; frames with fixCount > 0 are not written and keep their dirty bit; no
\* frame's page number or fixCount changes; one write is counted per frame written.
FlushCleansUnpinned ==
    LET r == forceFlushPool(World) IN
    /\ r.rc = RC_OK <=> frames # NULL
    /\ \A i \in DOMAIN frames :
          /\ r.w.frames[i].pageNum = frames[i].pageNum
          /\ r.w.frames[i].fixCount = frames[i].fixCount
          /\ r.w.frames[i].data = frames[i].data
          /\ frames[i].fixCount = 0 => ~r.w.frames[i].dirty
          /\ (frames[i].fixCount = 0 /\ frames[i].pageNum >= 0 /\ DirtyBitTruthful(World, i))
             => OnDisk(r.w, frames[i].pageNum) = r.w.frames[i].data
          /\ frames[i].fixCount > 0
             => /\ r.w.frames[i].dirty = frames[i].dirty
                /\ frames[i].pageNum >= 0
                   => OnDisk(r.w, frames[i].pageNum) = OnDisk(World, frames[i].pageNum)
    /\ r.w.writeIO = writeIO
          + Cardinality({i \in DOMAIN frames : frames[i].dirty /\ frames[i].fixCount = 0})
    /\ r.w.readIO = readIO

\* forceFlushPool has written an unpinned frame holding stored bytes and left a
\* pinned dirty frame alone
FlushedBesidePinnedDirty ==
    /\ ret = [op |-> "forceFlushPool", rc |-> RC_OK]
    /\ writeIO = 1
    /\ \E i, j \in DOMAIN frames :
          /\ frames[i].fixCount = 0 /\ ~frames[i].dirty /\ frames[i].data = StoredPage
          /\ OnDisk(World, frames[i].pageNum) = StoredPage
          /\ frames[j].fixCount > 0 /\ frames[j].dirty
          /\ OnDisk(World, frames[j].pageNum) # frames[j].data

\* the pool after the client has unpinned every pinned page until no pin is left
RECURSIVE unpinAll(_)
unpinAll(w) ==
    LET P == {i \in DOMAIN w.frames : w.frames[i].fixCount > 0}
    IN  IF P = {} THEN w
        ELSE unpinAll(unpinPage(w, w.frames[Min(P)].pageNum).w)

\* C14: shutdownBufferPool called while a frame has fixCount > 0 returns an error
\* (RC_ERROR, the code the source returns for pinned pages) and does not free the
\* pool: the management data stays, every frame's page number and fixCount are as
\* before, and the pool stays usable: unpinPage of a pinned page returns RC_OK and
\* decrements, shutdownBufferPool again returns the error, and once every pin is
\* released shutdownBufferPool returns RC_OK and frees the pool.
ShutdownKeepsPinnedPool ==
    (\E i \in DOMAIN frames : frames[i].fixCount > 0)
    => LET r == shutdownBufferPool(World) IN
       /\ r.rc = RC_ERROR
       /\ ~r.freed
       /\ r.w.frames # NULL
       /\ DOMAIN r.w.frames = DOMAIN frames
       /\ \A i \in DOMAIN frames :
             /\ r.w.frames[i].pageNum = frames[i].pageNum
             /\ r.w.frames[i].fixCount = frames[i].fixCount
             /\ r.w.frames[i].data = frames[i].data
             /\ frames[i].fixCount > 0
                => LET u == unpinPage(r.w, frames[i].pageNum) IN
                   /\ u.rc = RC_OK
                   /\ u.w.frames[i].fixCount = frames[i].fixCount - 1
       /\ shutdownBufferPool(r.w).rc = RC_ERROR
       /\ shutdownBufferPool(r.w).w = r.w
       /\ shutdownBufferPool(unpinAll(r.w)).rc = RC_OK
       /\ shutdownBufferPool(unpinAll(r.w)).freed

\* shutdownBufferPool has failed on a pool with a pinned frame, next to an unpinned
\* frame whose stored bytes are on disk
ShutdownRefused ==
    /\ ret = [op |-> "shutdownBufferPool", rc |-> RC_ERROR]
    /\ frames # NULL
    /\ \E i, j \in DOMAIN frames :
          /\ frames[i].fixCount > 0
          /\ frames[j].fixCount = 0 /\ frames[j].data = StoredPage /\ ~frames[j].dirty
          /\ OnDisk(World, frames[j].pageNum) = StoredPage

\* the page numbers resident in the pool
ResidentPages == {frames[i].pageNum : i \in DOMAIN frames} \ {-1}

\* C15: unpinPage on a resident page returns RC_OK and decrements that frame's
\* fixCount by exactly 1 when it is > 0 and leaves it at 0 when it is 0; fixCounts
\* are never negative in a reachable state; unpinPage changes no dirty bit, page
\* number, buffer, other frame's fixCount, I/O counter or byte of the file.
UnpinSaturates ==
    /\ \A i \in DOMAIN frames : frames[i].fixCount >= 0
    /\ \A p \in ResidentPages :
          LET u == unpinPage(World, p)
              k == findPageFrame(World, p)
          IN  /\ u.rc = RC_OK
              /\ frames[k].fixCount > 0 => u.w.frames[k].fixCount = frames[k].fixCount - 1
              /\ frames[k].fixCount = 0 => u.w.frames[k].fixCount = 0
              /\ u.w = [World EXCEPT !.frames[k].fixCount = u.w.frames[k].fixCount]

\* unpinPage has released the last pin of a dirty page while another page is pinned
LastPinReleased ==
    /\ ret = [op |-> "unpinPage", rc |-> RC_OK]
    /\ \E i, j \in DOMAIN frames :
          /\ frames[i].pageNum >= 0 /\ frames[i].fixCount = 0 /\ frames[i].dirty
          /\ frames[j].fixCount > 0

\* C16: forcePage on a resident page returns RC_OK; if the frame is dirty it writes
\* the frame's bytes to the file at the frame's page number, clears the dirty bit
\* and increments numWriteIO by 1; if the frame is clean it writes nothing and
\* numWriteIO is unchanged; in both cases the fixCount and page number of every
\* frame (and every buffer, other dirty bit and numReadIO) are unchanged.
ForceWritesOnlyDirty ==
    \A p \in ResidentPages :
        LET f == forcePage(World, p)
            k == findPageFrame(World, p)
        IN  /\ f.rc = RC_OK
            /\ f.w.frames = [frames EXCEPT ![k].dirty = FALSE]
            /\ f.w.readIO = readIO
            /\ frames[k].dirty
               => /\ f.w.writeIO = writeIO + 1
                  /\ f.w.disk = WriteBlock(disk, p, frames[k].data)
                  /\ OnDisk(f.w, p) = frames[k].data
            /\ ~frames[k].dirty
               => /\ f.w.writeIO = writeIO
                  /\ f.w.disk = disk

\* forcePage has written a pinned page holding stored bytes, and another resident
\* page is clean
ForcedWhilePinned ==
    /\ ret = [op |-> "forcePage", rc |-> RC_OK]
    /\ writeIO = 1
    /\ \E i, j \in DOMAIN frames :
          /\ i # j
          /\ frames[i].fixCount > 0 /\ ~frames[i].dirty /\ frames[i].data = StoredPage
          /\ OnDisk(World, frames[i].pageNum) = StoredPage
          /\ frames[j].pageNum >= 0 /\ ~frames[j].dirty

\* the pool every next call of the client leaves, from world w: pins of each page
\* and of page -1, and unpins, markDirtys and forcePages of each page, a flush and
\* a shutdown
PoolCalls(w) ==
    {pinPage(w, p).w : p \in PoolPages \cup {-1}}
    \cup {unpinPage(w, p).w : p \in PoolPages}
    \cup {markDirty(w, p).w : p \in PoolPages}
    \cup {forcePage(w, p).w : p \in PoolPages}
    \cup {forceFlushPool(w).w, shutdownBufferPool(w).w}

\* C17: numReadIO counts physical page loads only: no call decreases it, pinPage of
\* a non-resident page that completes its load increases it by exactly 1, and
\* pinPage of a resident page (a hit) changes neither numReadIO nor numWriteIO.
ReadsCountLoads ==
    /\ readIO >= 0
    /\ \A x \in PoolCalls(World) : x.readIO >= readIO
    /\ \A p \in PoolPages :
          LET r == pinPage(World, p) IN
          /\ r.rc = RC_OK <=> frames # NULL
          /\ (r.rc = RC_OK /\ p \notin ResidentPages) => r.w.readIO = readIO + 1
          /\ p \in ResidentPages
             => /\ r.w.readIO = readIO
                /\ r.w.writeIO = writeIO
                /\ r.w.disk = disk

\* pinPage has found its page resident after three loads, the last of which
\* replaced a page
HitAfterThreeLoads ==
    /\ ret = [op |-> "pinPage", rc |-> RC_OK]
    /\ readIO = PoolFrames + 1
    /\ writeIO = 0
    /\ \E i \in DOMAIN frames : frames[i].usage = 2 /\ frames[i].fixCount = 1

\* the number of completed write-backs among the fwrite results a call has seen
Completed(r) ==
    IF "wrote" \in DOMAIN r
    THEN Cardinality({k \in DOMAIN r.wrote : r.wrote[k] = PAGE_SIZE})
    ELSE 0

\* C18: numWriteIO equals the number of write-backs that completed successfully: it
\* is 0 after initBufferPool and every call adds to it exactly the number of
\* write-backs that completed in the call, so that a write-back that fails does not
\* increase numWriteIO.
WritesCountCompleted ==
    [][writeIO' = writeIO + Completed(ret')]_vars

(***************************************************************************)
(* Properties of the record manager's pool (checked on SpecFIFO).          *)
(***************************************************************************)
\* the calls "pin, markDirty, unpin" of a page the pin loads
DirtyRound(pageNum) ==
    <<Call("pinPage", pageNum, TRUE), Call("markDirty", pageNum, FALSE),
      Call("unpinPage", pageNum, FALSE)>>

\* the calls of the write-back accounting scenario up to the pin of page 3
ThreeDirtyRounds == DirtyRound(0) \o DirtyRound(1) \o DirtyRound(2)

\* C19: write-back accounting.  On a fresh 3-frame pool, pin, markDirty, unpin of
\* pages 0, 1, 2 (3 reads, no write, the three pages resident and dirty) and then
\* pinPage(3) leave numReadIO = 4 and numWriteIO = 1; the single write-back is of
\* page 0, whose frame now holds page 3 while pages 1 and 2 are still resident and
\* dirty: the frames hold pages 3, 1, 2.
WriteBackAccounting ==
    /\ NumFrames = 3
    /\ ret.calls = ThreeDirtyRounds
       => /\ readIO = 3 /\ writeIO = 0
          /\ \A i \in DOMAIN frames :
                frames[i].pageNum = i /\ frames[i].dirty /\ frames[i].fixCount = 0
    /\ ret.calls = Append(ThreeDirtyRounds, Call("pinPage", 3, TRUE))
       => /\ ret.rc = RC_OK
          /\ readIO = 4 /\ writeIO = 1
          /\ frames[0].pageNum = 3 /\ frames[1].pageNum = 1 /\ frames[2].pageNum = 2
          /\ ~frames[0].dirty /\ frames[0].fixCount = 1
          /\ frames[1].dirty /\ frames[2].dirty
          /\ totalNumPages(disk) = 4

\* the scenario's calls have all been made
ScenarioDone ==
    /\ ret.calls = Append(ThreeDirtyRounds, Call("pinPage", 3, TRUE))
    /\ readIO = 4
    /\ writeIO = 1

\* the position, among the calls made, of the pinPage that loaded resident page
\* pageNum: its load time
LoadTime(calls, pageNum) ==
    CHOOSE k \in 1..Len(calls) :
        /\ calls[k] = Call("pinPage", pageNum, TRUE)
        /\ \A j \in (k + 1)..Len(calls) : calls[j] # Call("pinPage", pageNum, TRUE)

\* C20: with strategy FIFO the victim chosen by pinPage is the unpinned frame whose
\* page was loaded earliest, and pinning an already-resident page (a hit) does not
\* change which frame is evicted next.  Stated of the full pool between two rounds
\* of the client (no page pinned): pinPage of a non-resident page loads it into the
\* frame of least load time, and after a pin and unpin of a resident page the
\* victim is the same frame.
FIFOVictim ==
    (handles = EmptyBag /\ \A i \in DOMAIN frames : frames[i].pageNum >= 0)
    => /\ \A q \in FIFOPages \ ResidentPages :
             \A i \in DOMAIN frames :
                 LoadTime(ret.calls, frames[pinPage(World, q).idx].pageNum)
                     <= LoadTime(ret.calls, frames[i].pageNum)
       /\ \A p \in ResidentPages :
             findVictimFrame(unpinPage(pinPage(World, p).w, p).w) = findVictimFrame(World)

(***************************************************************************)
(* Properties of inserts, deletes and scans.                                *)
(***************************************************************************)
\* no record was ever inserted: numTuples is 0 and no data page of the file
\* carries a header, a usage byte or a payload
NeverInserted ==
    /\ numTuples = 0
    /\ nextFreePage = -1
    /\ \A p \in DataPages(World) : PageOf(World, p) = ZeroPage

\* C21: the first insertRecord into an empty table (created and opened, numTuples
\* = 0, no record ever inserted), whatever get, delete or scan operations were
\* performed on it before, appends page 1 and returns RID (1, 0).
FirstInsertOnPageOne ==
    NeverInserted
    => \A d \in InsertPayloads :
           /\ insertRecord(Table, d).rc = RC_OK
           /\ insertRecord(Table, d).id = <<1, 0>>
           /\ totalNumPages(insertRecord(Table, d).t.w.disk) = 2

(***************************************************************************)
(* SpecInsert: a freshly created table that receives only inserts.         *)
(***************************************************************************)
\* the records the insert-only client inserts
SeqPayloads == {IntBytes(42), IntBytes(7), IntBytes(300)}

\* insertRecord; ret keeps the RID and the table as it was before the call
InsertOnly(recData) ==
    LET r == insertRecord(Table, recData) IN
    /\ SetTable(r.t)
    /\ ret' = [op |-> "insertRecord", rc |-> r.rc, id |-> r.id, k |-> numTuples,
               pages |-> totalNumPages(disk), nextFreePage |-> nextFreePage]
    /\ UNCHANGED <<scan, handles>>

NextInsert == \E recData \in SeqPayloads : InsertOnly(recData)

SpecInsert == Init /\ [][NextInsert]_vars

\* C22: in a freshly created table that receives only inserts, the k-th insert (k
\* from 0) returns RID (1 + k div N, k mod N) and numTuples becomes k + 1; the
\* insert that fills a page sets nextFreePage = -1, and the insert after it appends
\* a new page at the end of the file (an insert into a page with room appends none).
InsertSequence ==
    ret.op = "insertRecord"
    => LET N == computeMaxSlots(recordSize) IN
       /\ ret.rc = RC_OK
       /\ ret.id = <<1 + ret.k \div N, ret.k % N>>
       /\ numTuples = ret.k + 1
       /\ (numTuples % N = 0 <=> nextFreePage = -1)
       /\ numTuples % N # 0 => nextFreePage = ret.id[1]
       /\ IF ret.nextFreePage = -1
          THEN totalNumPages(disk) = ret.pages + 1 /\ ret.id[1] = ret.pages
          ELSE totalNumPages(disk) = ret.pages
       /\ PayloadOf(PageOf(World, ret.id[1]), ret.id[2]) \in SeqPayloads

\* the insert after the one that filled page 1 has appended page 2
SecondPageAppended ==
    /\ ret.op = "insertRecord"
    /\ ret.k = computeMaxSlots(recordSize)
    /\ ret.nextFreePage = -1
    /\ totalNumPages(disk) = 3

\* nextFreePage after deleteRecord(id), given the page as it was before the call
NextFreeAfterDelete(data, id) ==
    IF /\ getSlotFlag(data, id[2]) = 1
       /\ slotsUsedOf(data) = computeMaxSlots(recordSize)
    THEN id[1]
    ELSE nextFreePage

\* C23: deleteRecord of a used slot on page p sets nextFreePage to p when the page
\* was full before the delete (slotsUsed becomes N - 1); a delete that leaves
\* slotsUsed different from N - 1, or that targets a free slot, leaves nextFreePage
\* unchanged.
DeleteFreesFullPage ==
    \A id \in DataPages(World) \X Slots :
        /\ deleteRecord(Table, id).rc = RC_OK
        /\ deleteRecord(Table, id).t.nextFreePage
               = NextFreeAfterDelete(PageOf(World, id[1]), id)

\* page 1 is full and is not nextFreePage, page 2 has a used and a free slot: a
\* delete on page 1 moves nextFreePage, a delete on page 2 does not
FullPageBesideOpenPage ==
    /\ Len(disk) = 3
    /\ nextFreePage = 2
    /\ UsedSlots(PageOf(World, 1)) = Slots
    /\ UsedSlots(PageOf(World, 2)) = {0}

\* the scan predicates of the client: none, "a >= 8" and "a >= 43"
Conds == {NoCond, <<8>>, <<43>>}

\* the RIDs a scan with predicate cond has to return: the used slots whose record
\* satisfies it
Expected(w, cond) ==
    {id \in DataPages(w) \X Slots :
        /\ getSlotFlag(PageOf(w, id[1]), id[2]) = 1
        /\ (cond = NoCond \/ evalExpr(PayloadOf(PageOf(w, id[1]), id[2]), cond))}

\* (page, slot) order of RIDs
RIDBefore(a, b) == a[1] < b[1] \/ (a[1] = b[1] /\ a[2] < b[2])

\* found lists exactly the RIDs of E, each once, in ascending order, each with the
\* payload of its slot
ListsInOrder(w, found, E) ==
    /\ Len(found) = Cardinality(E)
    /\ {found[i].id : i \in DOMAIN found} = E
    /\ \A i, j \in DOMAIN found : i < j => RIDBefore(found[i].id, found[j].id)
    /\ \A i \in DOMAIN found :
           found[i].data = PayloadOf(PageOf(w, found[i].id[1]), found[i].id[2])

\* C24: a scan started with startScan and driven by next until NoMoreTuples, with no
\* insert or delete in between, returns exactly the used slots whose record satisfies
\* the predicate (all used slots when the predicate is null), each exactly once, in
\* ascending (page, slot) order; on a table with no records the first next returns
\* NoMoreTuples.
ScanReturnsUsedSlots ==
    \A cond \in Conds :
        /\ ListsInOrder(World, scanLoop(Table, startScan(cond), <<>>).found,
                        Expected(World, cond))
        /\ numTuples = 0
           => next(Table, startScan(cond)).rc = RC_RM_NO_MORE_TUPLES

\* two data pages with a free slot, a record the predicate "a >= 8" accepts and one
\* it rejects
MixedRecordsOnTwoPages ==
    /\ Len(disk) = 3
    /\ Expected(World, <<8>>) # {}
    /\ Expected(World, <<8>>) # Expected(World, NoCond)
    /\ Expected(World, NoCond) # DataPages(World) \X Slots
    /\ Cardinality(Expected(World, NoCond)) >= 3

(***************************************************************************)
(* SpecScan: one scan handle driven next by next, with inserts, deletes    *)
(* and updates of the scanned table between the calls.                     *)
(***************************************************************************)
\* what the scanning client remembers of its last call; interleaved: the table was
\* modified since startScan
ScanRet(op, rc, id, data, interleaved) ==
    [op |-> op, rc |-> rc, id |-> id, data |-> data, interleaved |-> interleaved]

\* the bounds of the scanned table: two data pages, each touched often enough for
\* an insert, an update or delete and a next on the same page
ScanMaxUsage == MaxUsage + 2

SetScanTable(t) ==
    /\ Len(t.w.disk) <= NumFrames
    /\ \A i \in DOMAIN t.w.frames : t.w.frames[i].usage <= ScanMaxUsage
    /\ SetWorld(t.w)
    /\ numTuples' = t.numTuples
    /\ nextFreePage' = t.nextFreePage

StartScan(cond) ==
    /\ scan' = startScan(cond)
    /\ ret' = ScanRet("startScan", RC_OK, <<-1, -1>>, <<>>, FALSE)
    /\ UNCHANGED <<frames, readIO, writeIO, disk, numTuples, nextFreePage, handles>>

NextRecord ==
    /\ scan # NoScan
    /\ LET r == next(Table, scan) IN
       /\ SetScanTable(r.t)
       /\ scan' = r.sc
       /\ ret' = ScanRet("next", r.rc, r.id, r.data, ret.interleaved)
    /\ UNCHANGED handles

ScanInsert(recData) ==
    LET r == insertRecord(Table, recData) IN
    /\ SetScanTable(r.t)
    /\ ret' = ScanRet("insertRecord", r.rc, r.id, <<>>, TRUE)
    /\ UNCHANGED <<scan, handles>>

ScanDelete(id) ==
    LET r == deleteRecord(Table, id) IN
    /\ SetScanTable(r.t)
    /\ ret' = ScanRet("deleteRecord", r.rc, id, <<>>, TRUE)
    /\ UNCHANGED <<scan, handles>>

ScanUpdate(id, recData) ==
    LET r == updateRecord(Table, id, recData) IN
    /\ SetScanTable(r.t)
    /\ ret' = ScanRet("updateRecord", r.rc, id, <<>>, TRUE)
    /\ UNCHANGED <<scan, handles>>

NextScan ==
    \/ \E cond \in Conds : StartScan(cond)
    \/ NextRecord
    \/ \E recData \in InsertPayloads : ScanInsert(recData)
    \/ \E id \in RIDs : ScanDelete(id)
    \/ \E id \in RIDs, recData \in UpdatePayloads : ScanUpdate(id, recData)

SpecScan == Init /\ [][NextScan]_vars

\* C25: live-view scan safety: when insertRecord, deleteRecord and updateRecord calls
\* are interleaved arbitrarily between the next calls of an open scan, every next
\* that returns ok returns a RID whose slot usage byte is 1 at the moment of return,
\* together with that slot's current payload.
ScanLiveView ==
    (ret.op = "next" /\ ret.rc = RC_OK)
    => /\ ret.id \in DataPages(World) \X Slots
       /\ getSlotFlag(PageOf(World, ret.id[1]), ret.id[2]) = 1
       /\ ret.data = PayloadOf(PageOf(World, ret.id[1]), ret.id[2])
       /\ scan.cond # NoCond => evalExpr(ret.data, scan.cond)

\* next returns an updated record of the second page, the table having been modified
\* since startScan
NextAfterInterleaving ==
    /\ ret.op = "next"
    /\ ret.rc = RC_OK
    /\ ret.interleaved
    /\ ret.id[1] = 2
    /\ ret.data \in UpdatePayloads

\* the call returned an error and left the file's page count, numTuples and
\* nextFreePage as they were
RejectedUnchanged(r) ==
    /\ r.rc # RC_OK
    /\ totalNumPages(r.t.w.disk) = totalNumPages(disk)
    /\ r.t.numTuples = numTuples
    /\ r.t.nextFreePage = nextFreePage

\* C27: getRecord, updateRecord and deleteRecord called with a RID whose page number
\* is not an existing page of the table file (page >= the file's total page count)
\* return an error and leave the table unchanged: the file's page count, numTuples
\* and nextFreePage are the same as before the call.
UnknownPageRejected ==
    \A slot \in Slots :
        /\ RejectedUnchanged(getRecord(Table, <<totalNumPages(disk), slot>>))
        /\ RejectedUnchanged(deleteRecord(Table, <<totalNumPages(disk), slot>>))
        /\ \A recData \in UpdatePayloads :
               RejectedUnchanged(updateRecord(Table, <<totalNumPages(disk), slot>>, recData))

\* the frames of the table's pool that are pinned
PinnedFrames(w) == {i \in DOMAIN w.frames : w.frames[i].fixCount > 0}

\* the pin every record-manager operation starts with, taken on page pageNum, pins
\* one frame, and the unpin the operation ends with releases it
OnePinAtATime(w, pageNum) ==
    /\ Cardinality(PinnedFrames(pinPage(w, pageNum).w)) = 1
    /\ PinnedFrames(unpinPage(pinPage(w, pageNum).w, pageNum).w) = {}

\* C30: through the record-manager API (createTable, openTable, insertRecord,
\* deleteRecord, updateRecord, getRecord, next, closeTable) at most one frame of the
\* table's pool has pin count > 0 at any moment, and every frame has pin count 0
\* whenever a record-manager operation returns (on success or error), so closeTable's
\* shutdownBufferPool never fails because of outstanding pins.
NoPinsOutstanding ==
    /\ PinnedFrames(World) = {}
    /\ \A pageNum \in 0..totalNumPages(disk) : OnePinAtATime(World, pageNum)
    /\ OnePinAtATime(appendDataPage(Table).w, totalNumPages(disk))
    /\ PinnedFrames(writeTableInfo(Table, TableSchema).w) = {}
    /\ closeTable(Table, TableSchema).rc = RC_OK

\* getRecord has returned an error on a table whose pool has replaced pages
ErrorReturnAfterReplacement ==
    /\ ret.op = "getRecord"
    /\ ret.rc = RC_RM_NO_MORE_TUPLES
    /\ readIO > NumFrames
    /\ numTuples > 0

(***************************************************************************)
(* Properties of pinPage (checked on SpecIO and SpecFIFO).                 *)
(***************************************************************************)
\* the outcomes of a write that fails
FailedWrites == WriteOutcomes \ {PAGE_SIZE}

\* pinPage(pageNum) has to write back a dirty victim first
EvictsDirty(w, pageNum) ==
    /\ findPageFrame(w, pageNum) < 0
    /\ w.frames[pinTarget(w)].dirty

\* C26: if the write-back of a dirty victim fails during pinPage of a non-resident
\* page, pinPage returns an error without evicting: the victim frame still holds its
\* original page number and buffer, its dirty bit is still set, its pin count is
\* unchanged, the requested page is not resident, and numReadIO is unchanged.
FailedWriteBackKeepsVictim ==
    \A pageNum \in PoolPages, wrote \in FailedWrites :
        EvictsDirty(World, pageNum)
        => /\ pinPageIO(World, pageNum, wrote).rc # RC_OK
           /\ pinPageIO(World, pageNum, wrote).w.frames[pinTarget(World)]
                  = frames[pinTarget(World)]
           /\ pinPageIO(World, pageNum, wrote).w.frames[pinTarget(World)].dirty
           /\ findPageFrame(pinPageIO(World, pageNum, wrote).w, pageNum) < 0
           /\ pinPageIO(World, pageNum, wrote).w.readIO = readIO

\* a pinPage has returned an error after its write-back wrote no byte, and the pool
\* still has a dirty victim for the next pinPage of a non-resident page
WriteBackFailed ==
    /\ ret.op = "pinPage"
    /\ ret.rc = RC_ERROR
    /\ ret.wrote = <<0>>
    /\ \E pageNum \in PoolPages : EvictsDirty(World, pageNum)

\* pinPage(pageNum) has to evict: the page is not resident and no frame is free
MustEvict(w, pageNum) ==
    /\ findPageFrame(w, pageNum) < 0
    /\ findFreeFrame(w) < 0

\* frame i is not pinned, and no unpinned frame has a smaller counter, nor the same
\* counter and a lower index
LeastUsedUnpinned(w, i) ==
    /\ w.frames[i].fixCount = 0
    /\ \A j \in DOMAIN w.frames :
           w.frames[j].fixCount = 0
           => \/ w.frames[i].usage < w.frames[j].usage
              \/ (w.frames[i].usage = w.frames[j].usage /\ i <= j)

\* C28: when pinPage must evict (page not resident, no frame with page number NONE)
\* and at least one frame has pin count 0, the victim is the pin-count-0 frame with
\* the smallest policy counter, the lowest frame index winning ties; the counter of a
\* frame is 1 when its page is loaded and grows by 1 on each hit on that page.
VictimLeastUsedUnpinned ==
    \A pageNum \in PoolPages :
        /\ (MustEvict(World, pageNum) /\ \E i \in DOMAIN frames : frames[i].fixCount = 0)
           => /\ pinPage(World, pageNum).rc = RC_OK
              /\ LeastUsedUnpinned(World, pinPage(World, pageNum).idx)
              /\ \A i \in DOMAIN frames :
                     pinPage(World, pageNum).w.frames[i].pageNum
                         = IF i = pinPage(World, pageNum).idx THEN pageNum
                                                              ELSE frames[i].pageNum
        /\ IF findPageFrame(World, pageNum) < 0
           THEN pinPage(World, pageNum).w.frames[pinPage(World, pageNum).idx].usage = 1
           ELSE pinPage(World, pageNum).w.frames[findPageFrame(World, pageNum)].usage
                    = frames[findPageFrame(World, pageNum)].usage + 1

\* frame 0 is pinned with counter 1, frame 1 is not pinned and has a larger counter,
\* and the last pinPage replaced a page
PinnedFrameLeastUsed ==
    /\ frames[0].fixCount > 0
    /\ frames[1].fixCount = 0
    /\ frames[0].usage < frames[1].usage
    /\ \A i \in DOMAIN frames : frames[i].pageNum # -1
    /\ ret.op = "pinPage"
    /\ readIO > PoolFrames

\* the frame a successful pinPage leaves behind after loading pageNum from file d
LoadedFrame(d, pageNum) ==
    [data |-> ReadBlock(d, pageNum), pageNum |-> pageNum, dirty |-> FALSE,
     fixCount |-> 1, usage |-> 1]

\* result r of pinPage(pageNum) on a non-resident page: on success the lowest free
\* frame is taken when there is one, the chosen frame is freshly loaded and every
\* other frame is as it was
LoadsIntoFreeFrame(r, pageNum) ==
    r.rc = RC_OK
    => /\ findFreeFrame(World) >= 0
          => /\ frames[r.idx].pageNum = -1
             /\ \A j \in DOMAIN frames : frames[j].pageNum = -1 => r.idx <= j
       /\ r.w.frames[r.idx] = LoadedFrame(r.w.disk, pageNum)
       /\ \A j \in DOMAIN frames \ {r.idx} : r.w.frames[j] = frames[j]

\* result r of pinPage on the page resident in frame i: only the frame's pin count
\* and counter change, by 1
HitOnlyCounts(r, i) ==
    /\ r.rc = RC_OK
    /\ r.idx = i
    /\ r.w = [World EXCEPT !.frames[i].fixCount = @ + 1, !.frames[i].usage = @ + 1]

\* C29: pinPage of a non-resident page uses the lowest-indexed frame whose page
\* number is NONE whenever one exists (no resident page is evicted while a free frame
\* exists), and on success the chosen frame has the requested page number, dirty =
\* false, pin count = 1 and policy counter = 1, while every other frame is unchanged;
\* pinPage of a resident page only increments that frame's pin count and policy
\* counter by 1.
FreeFrameFirst ==
    \A pageNum \in PoolPages, wrote \in WriteOutcomes :
        IF findPageFrame(World, pageNum) < 0
        THEN LoadsIntoFreeFrame(pinPageIO(World, pageNum, wrote), pageNum)
        ELSE HitOnlyCounts(pinPageIO(World, pageNum, wrote), findPageFrame(World, pageNum))

\* frame 0 holds a page that was hit after its load, frame 1 is still free
HitBesideFreeFrame ==
    /\ ret.op = "pinPage"
    /\ frames[0].pageNum # -1
    /\ frames[0].usage = 2
    /\ frames[1].pageNum = -1

\* the tables the client can be in between a delete that left table t and its next
\* insert, one call that is neither a delete nor an insert later
BeforeNextInsert(t) ==
    {t, scanLoop(t, startScan(NoCond), <<>>).t}
    \cup {getRecord(t, q).t : q \in DataPages(t.w) \X Slots}
    \cup {updateRecord(t, q, d).t : q \in DataPages(t.w) \X Slots, d \in UpdatePayloads}

\* the insert into table t reuses slot id: no page is appended and the page is full
\* again
ReusesSlot(r, id) ==
    /\ r.rc = RC_OK
    /\ r.id = id
    /\ totalNumPages(r.t.w.disk) = totalNumPages(disk)
    /\ r.t.nextFreePage = -1
    /\ r.t.numTuples = numTuples

\* C33: slot reuse: if deleteRecord(r) frees a slot of a page that was full, then the
\* next insertRecord (with no other delete in between) returns exactly RID r,
\* appends no page, and sets nextFreePage back to -1.
FreedSlotReused ==
    \A id \in DataPages(World) \X Slots :
        (/\ getSlotFlag(PageOf(World, id[1]), id[2]) = 1
         /\ slotsUsedOf(PageOf(World, id[1])) = computeMaxSlots(recordSize))
        => \A t \in BeforeNextInsert(deleteRecord(Table, id).t), d \in InsertPayloads :
               ReusesSlot(insertRecord(t, d), id)

\* an insert has returned slot 0 of page 1 while page 2 holds a record: the slot was
\* freed when page 1 was full, and is in use again
SlotOfFullPageReused ==
    /\ ret.op = "insertRecord"
    /\ ret.id = <<1, 0>>
    /\ Len(disk) = 3
    /\ UsedSlots(PageOf(World, 2)) # {}
    /\ UsedSlots(PageOf(World, 1)) = Slots
    /\ nextFreePage = -1

\* C34: whenever nextFreePage >= 1 between operations, the page it names has at
\* least one free slot (slotsUsed < N); hence no sequence of insertRecord,
\* deleteRecord, updateRecord, getRecord and scan calls with valid slot numbers
\* reaches insertRecord's "no free slot" retry branch: every insertRecord places its
\* record in its first pass.
RetryBranchUnreachable ==
    /\ nextFreePage >= 1
       => /\ nextFreePage \in DataPages(World)
          /\ slotsUsedOf(PageOf(World, nextFreePage)) < computeMaxSlots(recordSize)
          /\ findFreeSlot(PageOf(World, nextFreePage)) >= 0
    /\ \A d \in InsertPayloads :
           /\ insertRecord(Table, d).rc = RC_OK
           /\ insertRecord(Table, d).passes = 1

\* an insert has left page 2 as nextFreePage with one record on it, page 1 being full
OpenPageAfterInsert ==
    /\ ret.op = "insertRecord"
    /\ nextFreePage = 2
    /\ slotsUsedOf(PageOf(World, 2)) = 1
    /\ slotsUsedOf(PageOf(World, 1)) = computeMaxSlots(recordSize)

\* the scan cursors a next call can be made with: a scan just started, and the open
\* scan where its last next left it
Cursors == {startScan(cond) : cond \in Conds} \cup (IF scan = NoScan THEN {} ELSE {scan})

\* table t differs from the current one in nothing a scan must leave alone: the
\* file's page count, the counters, the bytes of every page, the dirty frames
SameTableFile(t) ==
    /\ totalNumPages(t.w.disk) = totalNumPages(disk)
    /\ t.numTuples = numTuples
    /\ t.nextFreePage = nextFreePage
    /\ \A p \in 0..(totalNumPages(disk) - 1) : PageOf(t.w, p) = PageOf(World, p)
    /\ \A i \in DOMAIN t.w.frames :
           t.w.frames[i].dirty
           => \E j \in DOMAIN frames :
                  frames[j].dirty /\ frames[j].pageNum = t.w.frames[i].pageNum

\* C36: scans are read-only with respect to the table file: startScan and any number
\* of next calls (including calls made after next has already returned
\* NoMoreTuples, and scans of a table with no data page) never change the file's
\* total page count, numTuples, nextFreePage or any page's bytes, and never mark a
\* frame dirty.
ScanReadOnly == \A sc \in Cursors : SameTableFile(next(Table, sc).t)

\* getRecord result g for slot id, read after a reopen, is what the page as the pool
\* held it before the close says: the payload of a used slot, NoMoreTuples for a free
\* one
ReadsAsBefore(g, id) ==
    IF getSlotFlag(PageOf(World, id[1]), id[2]) = 1
    THEN g.rc = RC_OK /\ g.data = PayloadOf(PageOf(World, id[1]), id[2])
    ELSE g.rc = RC_RM_NO_MORE_TUPLES

\* closeTable returned rc and openTable of the file it left returned o: every slot
\* of the data pages reads as before the close
Durable(rc, o) ==
    /\ rc = RC_OK
    /\ o.numTuples = numTuples
    /\ \A id \in DataPages(World) \X Slots :
           ReadsAsBefore(getRecord([w |-> o.w, numTuples |-> o.numTuples,
                                    nextFreePage |-> o.nextFreePage], id), id)

DurableAfter(c) == Durable(c.rc, openTable(c.disk))

(***************************************************************************)
(* SpecRW: the table under inserts, deletes, updates to either payload,    *)
(* reads (a read of page 0 among them, which makes the 3-frame pool        *)
(* replace data pages) and full scans.                                     *)
(***************************************************************************)
NextRW ==
    \/ \E recData \in InsertPayloads : InsertRecord(recData)
    \/ \E id \in RIDs : DeleteRecord(id)
    \/ \E id \in RIDs, recData \in Payloads : UpdateRecord(id, recData)
    \/ \E id \in ReadRIDs : GetRecord(id)
    \/ ScanAll

SpecRW == Init /\ [][NextRW]_vars

\* C37: durability across close/open: after any sequence of inserts, updates and
\* deletes (including ones whose pages were evicted from, or are still dirty in, the
\* 3-frame pool), once closeTable returns ok and the table is reopened, getRecord
\* returns ok with the last written payload for every RID that was live before the
\* close and NoMoreTuples for every slot that was free.
CloseOpenKeepsRecords == DurableAfter(closeTable(Table, TableSchema))

\* a data page has been replaced in the pool, another is dirty in it, and the table
\* has live records and a free slot
DirtyAndEvictedPages ==
    /\ \E i \in DOMAIN frames : frames[i].dirty /\ frames[i].pageNum >= 1
    /\ \E p \in DataPages(World) :
           findPageFrame(World, p) < 0 /\ UsedSlots(PageOf(World, p)) # {}
    /\ \E p \in DataPages(World) : UsedSlots(PageOf(World, p)) # Slots
    /\ numTuples >= 3

(***************************************************************************)
(* SpecInsDel: a freshly created table that receives inserts and deletes   *)
(* only.                                                                   *)
(***************************************************************************)
NextInsDel ==
    \/ \E recData \in InsertPayloads : ScanInsert(recData)
    \/ \E id \in RIDs : ScanDelete(id)

SpecInsDel == Init /\ [][NextInsDel]_vars

\* C35: insertRecord appends a new data page only when no existing data page has a
\* free slot: after any sequence of inserts and deletes, if some data page has
\* slotsUsed < N then the next insert places the record in an existing page and the
\* file's page count does not grow.
AppendsOnlyWhenAllFull ==
    (\E p \in DataPages(World) :
         slotsUsedOf(PageOf(World, p)) < computeMaxSlots(recordSize))
    => \A d \in InsertPayloads :
           /\ insertRecord(Table, d).id[1] \in DataPages(World)
           /\ totalNumPages(insertRecord(Table, d).t.w.disk) = totalNumPages(disk)

(***************************************************************************)
(* SpecSize: insertRecord pass by pass, on tables of different record      *)
(* sizes.  A table has one STRING attribute; its typeLength is the record  *)
(* size.  ret keeps the table's recordSize, the record being inserted and  *)
(* the number of activations of insertRecord the current call has made.    *)
(***************************************************************************)
\* record sizes with 2 or more slots per page, with 1 slot and with none
SizedLengths == {SizeofInt, PAGE_SIZE - 5, PAGE_SIZE - 4}

SizedSchema(len) == <<[dataType |-> DT_STRING, typeLength |-> len, attrName |-> <<97>>]>>

\* the records of size recSize the client inserts
SizedPayloads(recSize) == {[i \in 1..recSize |-> b] : b \in {1, 2}}

\* the passes a call is followed for
MaxPasses == 3

\* the lowest free slot among maxSlots slots, -1 when none (insertRecord's loop)
freeSlotAmong(data, maxSlots) ==
    LET F == {i \in 0..(maxSlots - 1) : getSlotFlag(data, i) = 0}
    IN  IF F = {} THEN -1 ELSE Min(F)

\* one activation of insertRecord after the pin p of nextFreePage: the record is
\* placed in freeSlot, or the page is given up and insertRecord calls itself
placeOrRetry(tA, p, freeSlot, maxSlots, recSize, recData) ==
    IF freeSlot < 0
    THEN [t  |-> [tA EXCEPT !.w = unpinPage(markDirty(p.w, tA.nextFreePage).w,
                                            tA.nextFreePage).w,
                            !.nextFreePage = -1],
          placed |-> FALSE, id |-> <<-1, -1>>]
    ELSE [t  |-> [w |-> unpinPage(markDirty(
                            StoreThrough(p.w, p.idx,
                                MemCpy(setSlotFlag(
                                           MemCpy(p.w.frames[p.idx].data,
                                                  4 + maxSlots + freeSlot * recSize, recData),
                                           freeSlot, 1),
                                       0, IntBytes(IntAt(p.w.frames[p.idx].data, 0) + 1))),
                            tA.nextFreePage).w, tA.nextFreePage).w,
                  numTuples |-> tA.numTuples + 1,
                  nextFreePage |-> IF IntAt(p.w.frames[p.idx].data, 0) + 1 = maxSlots
                                   THEN -1 ELSE tA.nextFreePage],
          placed |-> TRUE, id |-> <<tA.nextFreePage, freeSlot>>]

insertPinnedSized(tA, p, recSize, recData) ==
    placeOrRetry(tA, p, freeSlotAmong(p.w.frames[p.idx].data, computeMaxSlots(recSize)),
                 computeMaxSlots(recSize), recSize, recData)

insertOnPageSized(tA, recSize, recData) ==
    insertPinnedSized(tA, pinPage(tA.w, tA.nextFreePage), recSize, recData)

\* one activation of insertRecord on a table of record size recSize
insertPassSized(t, recSize, recData) ==
    IF t.nextFreePage < 1
    THEN insertOnPageSized(appendDataPage(t), recSize, recData)
    ELSE insertOnPageSized(t, recSize, recData)

SizeRet(op, rc, recSize, recData, passes) ==
    [op |-> op, rc |-> rc, recordSize |-> recSize, recData |-> recData, passes |-> passes]

InitSize ==
    \E len \in SizedLengths :
        LET t == openTable(createTable(SizedSchema(len))) IN
        /\ frames = t.w.frames
        /\ readIO = t.w.readIO
        /\ writeIO = t.w.writeIO
        /\ disk = t.w.disk
        /\ numTuples = t.numTuples
        /\ nextFreePage = t.nextFreePage
        /\ scan = NoScan
        /\ handles = EmptyBag
        /\ ret = SizeRet("openTable", RC_OK, computeRecordSize(t.schema), <<>>, 0)

\* the table after a pass r; "insertRecord" in ret.op while the call has not returned
SetSized(r, recData, passes) ==
    /\ Len(r.t.w.disk) <= MaxPages
    /\ passes <= MaxPasses
    /\ SetWorld(r.t.w)
    /\ numTuples' = r.t.numTuples
    /\ nextFreePage' = r.t.nextFreePage
    /\ ret' = SizeRet(IF r.placed THEN "returned" ELSE "insertRecord",
                      IF r.placed THEN RC_OK ELSE "none", ret.recordSize, recData, passes)
    /\ UNCHANGED <<scan, handles>>

\* the client calls insertRecord: its first activation
InsertCall(recData) ==
    /\ ret.op # "insertRecord"
    /\ SetSized(insertPassSized(Table, ret.recordSize, recData), recData, 1)

\* insertRecord's call of itself: the next activation
InsertRetry ==
    /\ ret.op = "insertRecord"
    /\ SetSized(insertPassSized(Table, ret.recordSize, ret.recData), ret.recData,
                ret.passes + 1)

NextSize ==
    \/ \E recData \in SizedPayloads(ret.recordSize) : InsertCall(recData)
    \/ InsertRetry

SpecSize == InitSize /\ [][NextSize]_vars

\* C31: insertRecord terminates for any table (any record size and any reachable
\* catalog state): it makes at most one recursive retry, i.e. at most two passes, one
\* that allocates a new page and one that places the record.
InsertAtMostTwoPasses ==
    /\ ret.passes <= 2
    /\ ret.passes = 2 => ret.op = "returned"

\* every frame of the pool is pinned
AllPinned(w) == \A i \in DOMAIN w.frames : w.frames[i].fixCount > 0

\* result r of pinPage(pageNum) on a pool whose frames are all pinned: frame 0 is
\* reused, its page written back when dirty, and the displaced page's handle can no
\* longer be unpinned
FrameZeroReused(r, pageNum) ==
    /\ r.rc = RC_OK
    /\ r.idx = 0
    /\ r.w.frames[0] = LoadedFrame(r.w.disk, pageNum)
    /\ \A j \in DOMAIN frames \ {0} : r.w.frames[j] = frames[j]
    /\ IF frames[0].dirty
       THEN /\ ReadBlock(r.w.disk, frames[0].pageNum) = frames[0].data
            /\ r.w.writeIO = writeIO + 1
       ELSE /\ ReadBlock(r.w.disk, frames[0].pageNum) = ReadBlock(disk, frames[0].pageNum)
            /\ r.w.writeIO = writeIO
    /\ unpinPage(r.w, frames[0].pageNum).rc = RC_ERROR
    /\ unpinPage(r.w, frames[0].pageNum).w = r.w

\* C32: when every frame has pin count > 0 and pinPage is called for a non-resident
\* page, the pool reuses frame index 0: frame 0's previous page is written back if
\* dirty, the requested page is loaded into frame 0 with pin count reset to 1,
\* pinPage returns ok, and a later unpinPage with the handle of the displaced page
\* returns an error.
AllPinnedReusesFrameZero ==
    \A pageNum \in PoolPages :
        (AllPinned(World) /\ findPageFrame(World, pageNum) < 0)
        => FrameZeroReused(pinPage(World, pageNum), pageNum)

\* a pinPage has displaced a pinned page: the client holds a handle of a page that
\* is in no frame, and every frame is pinned again
PinnedPageDisplaced ==
    /\ ret.op = "pinPage"
    /\ ret.rc = RC_OK
    /\ AllPinned(World)
    /\ \E h \in HeldHandles : findPageFrame(World, h.pageNum) < 0
    /\ \E i \in DOMAIN frames : frames[i].dirty

====
